---- MODULE Spec2Model ----
(***************************************************************************)
(* ExpenseSplitter: the balance and settlement engine                      *)
(* (utils/calculations.ts), the receipt allocator                          *)
(* (utils/receiptAllocation.ts) and the expense and participant actions of *)
(* the store (state/useLocalStore.ts).                                     *)
(*                                                                         *)
(* Representation.  A currency amount (a JavaScript number such as 25.30)  *)
(* is an integer number of thousandths of a currency unit ("mills"):       *)
(* 25.30 is 25300, one cent is 10.  Integer cents (the engine's internal   *)
(* unit) are plain integers.  toCents / fromCents / toFixed(2) convert     *)
(* between the two and round as the JavaScript functions do.               *)
(*                                                                         *)
(* Floating point.  distributeShares computes (weight / totalWeight) *     *)
(* totalCents in IEEE doubles.  The double differs from the rational value *)
(* by a rounding error far smaller than the distance between two different *)
(* fractions k / totalWeight, so it decides nothing except the order of    *)
(* two participants of different weight whose rational fractions tie.      *)
(* FpLowFraction tabulates those cases from the double arithmetic.         *)
(***************************************************************************)
EXTENDS Integers, Sequences, FiniteSets, TLC

(***************************************************************************)
(* Bounds of the model.                                                    *)
(***************************************************************************)
MaxCents == 6
MaxWeight == 4
MaxNet == 3
MaxExpenses == 2
MaxItems == 2
MaxStoreSteps == 2

(***************************************************************************)
(* Program constants.                                                      *)
(***************************************************************************)
CENT_FACTOR == 100

ParticipantIds == {"a", "b", "c"}

(***************************************************************************)
(* Generic helpers on sequences.                                           *)
(***************************************************************************)
RECURSIVE SumSeq(_)
SumSeq(s) == IF s = <<>> THEN 0 ELSE Head(s) + SumSeq(Tail(s))

\* The function f on 1..n as a sequence whose elements are evaluated once.
AsSeq(f) == <<>> \o f

MapSeq(s, Op(_)) == AsSeq([i \in 1..Len(s) |-> Op(s[i])])

InjectiveSeqs(S) ==
  UNION {{s \in [1..n -> S] : \A i, j \in 1..n : i # j => s[i] # s[j]} :
         n \in 0..Cardinality(S)}

Abs(x) == IF x < 0 THEN -x ELSE x

Min(x, y) == IF x <= y THEN x ELSE y

\* Array.prototype.sort is stable.  SortedIndices(keys) is the order in which
\* a stable sort by ascending key lists the positions 1..Len(keys); a
\* comparator (a, b) => b.k - a.k (descending) is the ascending sort by -k.
RECURSIVE InsertIndex(_, _, _)
InsertIndex(i, s, keys) ==
  IF s = <<>> THEN <<i>>
  ELSE IF keys[i] < keys[Head(s)] THEN <<i>> \o s
  ELSE <<Head(s)>> \o InsertIndex(i, Tail(s), keys)

RECURSIVE SortedPrefix(_, _)
SortedPrefix(n, keys) ==
  IF n = 0 THEN <<>> ELSE InsertIndex(n, SortedPrefix(n - 1, keys), keys)

SortedIndices(keys) == SortedPrefix(Len(keys), keys)

(***************************************************************************)
(* Cent-exact arithmetic helpers.                                          *)
(***************************************************************************)
\* Math.round(x): the integer nearest to x, halves rounded up; x = num / den.
MathRound(num, den) == (2 * num + den) \div (2 * den)

\* Number(v.toFixed(2)) of an amount in mills: nearest cent, halves away
\* from zero.
ToFixed2(v) == IF v >= 0 THEN ((v + 5) \div 10) * 10
               ELSE -((((-v) + 5) \div 10) * 10)

\* toCents(value) = Math.round(value * CENT_FACTOR)
toCents(value) == MathRound(value * CENT_FACTOR, 1000)

\* fromCents(value) = Number((value / CENT_FACTOR).toFixed(2))
fromCents(value) == ToFixed2((value * 1000) \div CENT_FACTOR)

(***************************************************************************)
(* Split distributor.                                                      *)
(***************************************************************************)
\* The walk of distributeEven's map callback: the running `remainder` is
\* decremented each time an extra cent is handed out.
RECURSIVE EvenWalk(_, _, _)
EvenWalk(participantIds, base, remainder) ==
  IF participantIds = <<>> THEN <<>>
  ELSE <<[participantId |-> Head(participantIds),
          cents |-> base + (IF remainder > 0 THEN 1 ELSE 0)]>>
       \o EvenWalk(Tail(participantIds), base,
                   IF remainder > 0 THEN remainder - 1 ELSE remainder)

\* distributeEven without the decrement of `remainder`: once there is a
\* remainder every participant gets an extra cent.
distributeEvenKeepsRemainder(totalCents, participantIds) ==
  LET count == IF Len(participantIds) = 0 THEN 1 ELSE Len(participantIds)
      base == totalCents \div count
      remainder == totalCents - base * count
  IN  [i \in 1..Len(participantIds) |->
        [participantId |-> participantIds[i],
         cents |-> base + (IF remainder > 0 THEN 1 ELSE 0)]]

\* distributeEven handing the extra cents to the last participants of the
\* list instead of the first.
distributeEvenExtraToLast(totalCents, participantIds) ==
  LET count == IF Len(participantIds) = 0 THEN 1 ELSE Len(participantIds)
      base == totalCents \div count
      remainder == totalCents - base * count
  IN  [i \in 1..Len(participantIds) |->
        [participantId |-> participantIds[i],
         cents |-> base + (IF i > Len(participantIds) - remainder THEN 1 ELSE 0)]]

\* distributeEven clamping the list instead of the count: with no
\* participant the whole total lands on one entry without an id.
distributeEvenClampsList(totalCents, participantIds) ==
  LET ids == IF Len(participantIds) = 0 THEN <<"">> ELSE participantIds
      count == Len(ids)
      base == totalCents \div count
      remainder == totalCents - base * count
  IN  EvenWalk(ids, base, remainder)

distributeEven(totalCents, participantIds) ==
  LET count == IF Len(participantIds) = 0 THEN 1 ELSE Len(participantIds)
      base == totalCents \div count
      remainder == totalCents - base * count
  IN  EvenWalk(participantIds, base, remainder)

IsPositiveShare(share) == share.weight > 0

ShareParticipantId(share) == share.participantId

ShareWeight(share) == share.weight

EntryCents(entry) == entry.cents

\* <<weight, totalWeight, totalCents>> such that the rational fraction of
\* (weight / totalWeight) * totalCents equals that of another weight up to 6
\* while the double's fraction is the smaller of the two.  Tabulated from
\* IEEE-754 double arithmetic for weights up to 6, total weights up to 18 and
\* totals up to 9 cents; everywhere else in that range the doubles are ordered
\* as the rationals are and Math.floor of the double is the rational floor.
FpLowFraction ==
  { <<4, 6, 2>>, <<2, 6, 2>>, <<4, 6, 4>>, <<2, 6, 4>>, <<4, 6, 8>>,
    <<2, 6, 8>>, <<4, 9, 3>>, <<2, 9, 3>>, <<4, 9, 6>>, <<2, 9, 6>>,
    <<6, 10, 2>>, <<6, 10, 4>>, <<6, 10, 6>>, <<6, 10, 8>>, <<4, 12, 4>>,
    <<2, 12, 4>>, <<4, 12, 8>>, <<2, 12, 8>>, <<1, 15, 3>>, <<4, 15, 5>>,
    <<5, 15, 5>>, <<1, 15, 6>>, <<1, 15, 9>>, <<4, 18, 6>>, <<2, 18, 6>> }

\* The double (weight / totalWeight) * totalCents as a numerator over the
\* denominator 3 * totalWeight: the rational value, lowered by less than the
\* distance between two fractions where the double is the lower of a tie.
FpExact(weight, totalWeight, totalCents) ==
  3 * weight * totalCents
    - (IF <<weight, totalWeight, totalCents>> \in FpLowFraction THEN 1 ELSE 0)

\* distributeShares without the loop that hands out the leftover cents.
distributeSharesFloorOnly(totalCents, split) ==
  LET positiveShares == SelectSeq(split.shares, IsPositiveShare)
      totalWeight == SumSeq(MapSeq(positiveShares, ShareWeight))
  IN  IF Len(positiveShares) = 0
      THEN distributeEven(totalCents, MapSeq(split.shares, ShareParticipantId))
      ELSE [i \in 1..Len(positiveShares) |->
             [participantId |-> positiveShares[i].participantId,
              cents |-> FpExact(positiveShares[i].weight, totalWeight, totalCents)
                        \div (3 * totalWeight)]]

\* distributeShares returning no allocation at all when no weight is
\* positive, instead of falling back to the even split.
distributeSharesNoFallback(totalCents, split) ==
  LET positiveShares == SelectSeq(split.shares, IsPositiveShare)
  IN  IF Len(positiveShares) = 0
      THEN <<>>
      ELSE distributeSharesFloorOnly(totalCents, split)

\* distributeShares handing the leftover cents to the smallest fractional
\* remainders first.
distributeSharesSmallestRemainder(totalCents, split) ==
  LET positiveShares == SelectSeq(split.shares, IsPositiveShare)
  IN  IF Len(positiveShares) = 0
      THEN distributeEven(totalCents, MapSeq(split.shares, ShareParticipantId))
      ELSE
        LET totalWeight == SumSeq(MapSeq(positiveShares, ShareWeight))
            den == 3 * totalWeight
            floored == AsSeq([i \in 1..Len(positiveShares) |->
                                [participantId |-> positiveShares[i].participantId,
                                 cents |-> FpExact(positiveShares[i].weight,
                                                   totalWeight, totalCents) \div den,
                                 fraction |-> FpExact(positiveShares[i].weight,
                                                      totalWeight, totalCents) % den]])
            remainder == totalCents - SumSeq(MapSeq(floored, EntryCents))
            order == SortedIndices([i \in 1..Len(floored) |-> floored[i].fraction])
        IN  AsSeq([k \in 1..Len(order) |->
                    [participantId |-> floored[order[k]].participantId,
                     cents |-> floored[order[k]].cents
                               + (IF k <= remainder THEN 1 ELSE 0)]])

distributeShares(totalCents, split) ==
  LET positiveShares == SelectSeq(split.shares, IsPositiveShare)
  IN  IF Len(positiveShares) = 0
      THEN distributeEven(totalCents, MapSeq(split.shares, ShareParticipantId))
      ELSE
        LET totalWeight == SumSeq(MapSeq(positiveShares, ShareWeight))
            den == 3 * totalWeight
            raw == AsSeq([i \in 1..Len(positiveShares) |->
                            [participantId |-> positiveShares[i].participantId,
                             exact |-> FpExact(positiveShares[i].weight,
                                               totalWeight, totalCents)]])
            floored == AsSeq([i \in 1..Len(raw) |->
                                [participantId |-> raw[i].participantId,
                                 cents |-> raw[i].exact \div den,
                                 fraction |-> raw[i].exact % den]])
            allocated == SumSeq(MapSeq(floored, EntryCents))
            remainder == totalCents - allocated
            order == SortedIndices([i \in 1..Len(floored) |-> -floored[i].fraction])
        IN  AsSeq([k \in 1..Len(order) |->
                    [participantId |-> floored[order[k]].participantId,
                     cents |-> floored[order[k]].cents
                               + (IF k <= remainder THEN 1 ELSE 0)]])

\* distributeExact adding the difference to the last allocation instead of
\* the first.
distributeExactCorrectsLast(totalCents, split) ==
  LET allocations == [i \in 1..Len(split.allocations) |->
                       [participantId |-> split.allocations[i].participantId,
                        cents |-> toCents(split.allocations[i].amount)]]
      allocated == SumSeq(MapSeq(allocations, EntryCents))
      difference == totalCents - allocated
      last == Len(allocations)
  IN  IF difference # 0 /\ Len(allocations) > 0
      THEN [allocations EXCEPT ![last].cents = allocations[last].cents + difference]
      ELSE allocations

distributeExact(totalCents, split) ==
  LET allocations == [i \in 1..Len(split.allocations) |->
                       [participantId |-> split.allocations[i].participantId,
                        cents |-> toCents(split.allocations[i].amount)]]
      allocated == SumSeq(MapSeq(allocations, EntryCents))
      difference == totalCents - allocated
  IN  IF difference # 0 /\ Len(allocations) > 0
      THEN [allocations EXCEPT ![1].cents = allocations[1].cents + difference]
      ELSE allocations

\* The ShareCents[] that calculateExpenseShares obtains from the distributor.
DistributeSplit(expense) ==
  LET totalCents == toCents(expense.amount)
  IN  IF expense.split.type = "even"
      THEN distributeEven(totalCents, expense.split.participantIds)
      ELSE IF expense.split.type = "shares"
      THEN distributeShares(totalCents, expense.split)
      ELSE distributeExact(totalCents, expense.split)

ToExpenseShare(entry) ==
  [participantId |-> entry.participantId, amount |-> fromCents(entry.cents)]

calculateExpenseShares(expense) ==
  MapSeq(DistributeSplit(expense), ToExpenseShare)

(***************************************************************************)
(* Balance aggregator.  The Map of balances is the sequence of its entries *)
(* in insertion order, which is the order of event.participants.           *)
(***************************************************************************)
\* balances.get(id) followed by `if (entry)`, creating the entry when it is
\* missing instead of skipping the allocation.
AddPaidCreatesEntry(entries, allocation) ==
  IF \E i \in 1..Len(entries) : entries[i].participantId = allocation.participantId
  THEN AsSeq([i \in 1..Len(entries) |->
               IF entries[i].participantId = allocation.participantId
               THEN [entries[i] EXCEPT !.paid = ToFixed2(@ + allocation.amount)]
               ELSE entries[i]])
  ELSE Append(entries, [participantId |-> allocation.participantId,
                        paid |-> ToFixed2(allocation.amount),
                        owes |-> 0, net |-> 0])

\* entry.paid = allocation.amount: assignment in place of accumulation.
AddPaidOverwrites(entries, allocation) ==
  AsSeq([i \in 1..Len(entries) |->
        IF entries[i].participantId = allocation.participantId
        THEN [entries[i] EXCEPT !.paid = ToFixed2(allocation.amount)]
        ELSE entries[i]])

\* Lines 404-407: the allocation is added to the payer's entry, if any.
AddPaid(entries, allocation) ==
  AsSeq([i \in 1..Len(entries) |->
        IF entries[i].participantId = allocation.participantId
        THEN [entries[i] EXCEPT !.paid = ToFixed2(@ + allocation.amount)]
        ELSE entries[i]])

\* The share replacing what the participant already owes instead of being
\* added to it.
AddOwesOverwrites(entries, share) ==
  AsSeq([i \in 1..Len(entries) |->
        IF entries[i].participantId = share.participantId
        THEN [entries[i] EXCEPT !.owes = ToFixed2(share.amount)]
        ELSE entries[i]])

\* Lines 412-415: the share is added to the participant's entry, if any.
AddOwes(entries, share) ==
  AsSeq([i \in 1..Len(entries) |->
        IF entries[i].participantId = share.participantId
        THEN [entries[i] EXCEPT !.owes = ToFixed2(@ + share.amount)]
        ELSE entries[i]])

RECURSIVE ApplyPayers(_, _)
ApplyPayers(entries, paidBy) ==
  IF paidBy = <<>> THEN entries
  ELSE ApplyPayers(AddPaid(entries, Head(paidBy)), Tail(paidBy))

RECURSIVE ApplyShares(_, _)
ApplyShares(entries, expenseShares) ==
  IF expenseShares = <<>> THEN entries
  ELSE ApplyShares(AddOwes(entries, Head(expenseShares)), Tail(expenseShares))

\* Lines 401-417: the forEach over event.expenses.
RECURSIVE ApplyExpenses(_, _)
ApplyExpenses(entries, expenses) ==
  IF expenses = <<>> THEN entries
  ELSE ApplyExpenses(
         ApplyShares(ApplyPayers(entries, Head(expenses).paidBy),
                     calculateExpenseShares(Head(expenses))),
         Tail(expenses))

ExpenseAmount(e) == e.amount

\* net = paid - owes with the operands exchanged.
BalanceRecordNetReversed(entry) ==
  [participantId |-> entry.participantId,
   paid |-> ToFixed2(entry.paid),
   owes |-> ToFixed2(entry.owes),
   net |-> ToFixed2(entry.owes - entry.paid)]

\* Lines 419-424.
BalanceRecord(entry) ==
  [participantId |-> entry.participantId,
   paid |-> ToFixed2(entry.paid),
   owes |-> ToFixed2(entry.owes),
   net |-> ToFixed2(entry.paid - entry.owes)]

calculateEventBalances(ev) ==
  LET initial == AsSeq([i \in 1..Len(ev.participants) |->
                          [participantId |-> ev.participants[i].id,
                           paid |-> 0, owes |-> 0, net |-> 0]])
      totalExpenses == SumSeq(MapSeq(ev.expenses, ExpenseAmount))
      entries == ApplyExpenses(initial, ev.expenses)
  IN  [totals |-> [participants |-> Len(ev.participants),
                   expenses |-> ToFixed2(totalExpenses)],
       balances |-> MapSeq(entries, BalanceRecord)]

(***************************************************************************)
(* Settlement reducer.                                                     *)
(***************************************************************************)
\* tolerance = 0.01, the default of suggestSettlements' parameter.
DefaultTolerance == 10

\* The creditor filter with >= in place of >.
IsCreditorInclusive(balance, tolerance) == balance.net >= tolerance

IsCreditor(balance, tolerance) == balance.net > tolerance

IsDebtor(balance, tolerance) == balance.net < -tolerance

BalanceNet(balance) == balance.net

\* The creditor list sorted by ascending net, smallest creditor first.
SortCreditorsAscending(list, tolerance) ==
  LET kept == SelectSeq(list, LAMBDA balance : IsCreditor(balance, tolerance))
      order == SortedIndices([i \in 1..Len(kept) |-> kept[i].net])
  IN  [k \in 1..Len(order) |-> kept[order[k]]]

\* filter(...).map(copy).sort((a, b) => b.net - a.net)
SortCreditors(list, tolerance) ==
  LET kept == SelectSeq(list, LAMBDA balance : IsCreditor(balance, tolerance))
      order == SortedIndices([i \in 1..Len(kept) |-> -kept[i].net])
  IN  [k \in 1..Len(order) |-> kept[order[k]]]

\* filter(...).map(copy).sort((a, b) => a.net - b.net)
SortDebtors(list, tolerance) ==
  LET kept == SelectSeq(list, LAMBDA balance : IsDebtor(balance, tolerance))
      order == SortedIndices([i \in 1..Len(kept) |-> kept[i].net])
  IN  [k \in 1..Len(order) |-> kept[order[k]]]

\* The settled amount cut in half, which settles neither party.
SettlementAmountHalved(creditor, debtor) ==
  Min(creditor.net, Abs(debtor.net)) \div 2

\* The larger of the two remainders settled instead of the smaller.
SettlementAmountLarger(creditor, debtor) ==
  IF creditor.net >= Abs(debtor.net) THEN creditor.net ELSE Abs(debtor.net)

\* One cent settled per iteration.
SettlementAmountCentByCent(creditor, debtor) ==
  Min(10, Min(creditor.net, Abs(debtor.net)))

SettlementAmount(creditor, debtor) == Min(creditor.net, Abs(debtor.net))

\* Object identity.  A slot of the creditor or debtor array holds either a
\* fresh object (origin 0) or the i-th object of the input array itself
\* (origin i); an assignment to a field of the slot's object is then an
\* assignment to the input.
\* .map((balance) => balance): the slot holds the input object.
SpreadCopyShared(i) == i

\* .map((balance) => ({ ...balance })): the slot holds a fresh object.
SpreadCopy(i) == 0

Positions(list) == AsSeq([i \in 1..Len(list) |-> i])

CreditorOrigins(list, tolerance) ==
  LET kept == SelectSeq(Positions(list), LAMBDA i : IsCreditor(list[i], tolerance))
      order == SortedIndices([k \in 1..Len(kept) |-> -list[kept[k]].net])
  IN  AsSeq([k \in 1..Len(order) |-> SpreadCopy(kept[order[k]])])

DebtorOrigins(list, tolerance) ==
  LET kept == SelectSeq(Positions(list), LAMBDA i : IsDebtor(list[i], tolerance))
      order == SortedIndices([k \in 1..Len(kept) |-> list[kept[k]].net])
  IN  AsSeq([k \in 1..Len(order) |-> SpreadCopy(kept[order[k]])])

\* object.net = net, seen from the input array.
WriteNet(list, origin, net) ==
  IF origin = 0 THEN list ELSE [list EXCEPT ![origin].net = net]

(***************************************************************************)
(* Receipt allocator (utils/receiptAllocation.ts).  The object             *)
(* perParticipantCents is the sequence of its entries in insertion order.  *)
(***************************************************************************)
\* Math.round(item.amount * 100)
ItemCents(item) == MathRound(item.amount * 100, 1000)

\* perParticipantCents[id] = (perParticipantCents[id] ?? 0) + amountCents
AddReceiptCents(entries, participantId, amountCents) ==
  IF \E k \in 1..Len(entries) : entries[k].participantId = participantId
  THEN AsSeq([k \in 1..Len(entries) |->
               IF entries[k].participantId = participantId
               THEN [participantId |-> participantId,
                     cents |-> entries[k].cents + amountCents]
               ELSE entries[k]])
  ELSE Append(entries, [participantId |-> participantId, cents |-> amountCents])

\* The walk over an item's participants without the decrement of
\* `remainder`: once there is a remainder everybody gets an extra cent.
RECURSIVE ReceiptWalkKeepsRemainder(_, _, _, _)
ReceiptWalkKeepsRemainder(entries, participants, base, remainder) ==
  IF participants = <<>> THEN entries
  ELSE ReceiptWalkKeepsRemainder(
         AddReceiptCents(entries, Head(participants),
                         base + (IF remainder > 0 THEN 1 ELSE 0)),
         Tail(participants), base, remainder)

\* participants.forEach(...): the first `remainder` participants of the item
\* are credited base + 1 cents, the later ones base.
RECURSIVE ReceiptWalk(_, _, _, _)
ReceiptWalk(entries, participants, base, remainder) ==
  IF participants = <<>> THEN entries
  ELSE ReceiptWalk(
         AddReceiptCents(entries, Head(participants),
                         base + (IF remainder > 0 THEN 1 ELSE 0)),
         Tail(participants), base,
         IF remainder > 0 THEN remainder - 1 ELSE remainder)

\* The callback of items.forEach returning for an unassigned item before it
\* has added the item to the total.
AllocateItemSkipsTotal(acc, item) ==
  LET itemCents == ItemCents(item)
      participants == item.assignedParticipantIds
  IN  IF Len(participants) = 0
      THEN [acc EXCEPT !.unassignedItemIds = Append(@, item.id)]
      ELSE LET base == itemCents \div Len(participants)
               remainder == itemCents - base * Len(participants)
           IN  [perParticipantCents |->
                  ReceiptWalk(acc.perParticipantCents, participants, base, remainder),
                unassignedItemIds |-> acc.unassignedItemIds,
                totalCents |-> acc.totalCents + itemCents]

\* The callback of items.forEach crediting every assignee the base only, so
\* that the odd cents of an item are credited to nobody.
AllocateItemDropsRemainder(acc, item) ==
  LET itemCents == ItemCents(item)
      participants == item.assignedParticipantIds
  IN  IF Len(participants) = 0
      THEN [perParticipantCents |-> acc.perParticipantCents,
            unassignedItemIds |-> Append(acc.unassignedItemIds, item.id),
            totalCents |-> acc.totalCents + itemCents]
      ELSE [perParticipantCents |->
              ReceiptWalk(acc.perParticipantCents, participants,
                          itemCents \div Len(participants), 0),
            unassignedItemIds |-> acc.unassignedItemIds,
            totalCents |-> acc.totalCents + itemCents]

\* The callback of items.forEach applied to the three accumulators.
AllocateItem(acc, item) ==
  LET itemCents == ItemCents(item)
      participants == item.assignedParticipantIds
  IN  IF Len(participants) = 0
      THEN [perParticipantCents |-> acc.perParticipantCents,
            unassignedItemIds |-> Append(acc.unassignedItemIds, item.id),
            totalCents |-> acc.totalCents + itemCents]
      ELSE LET base == itemCents \div Len(participants)
               remainder == itemCents - base * Len(participants)
           IN  [perParticipantCents |->
                  ReceiptWalk(acc.perParticipantCents, participants, base, remainder),
                unassignedItemIds |-> acc.unassignedItemIds,
                totalCents |-> acc.totalCents + itemCents]

\* Number((cents / 100).toFixed(2)) for every entry of perParticipantCents.
ToReceiptShare(entry) ==
  [participantId |-> entry.participantId,
   amount |-> ToFixed2((entry.cents * 1000) \div 100)]

\* The ReceiptAllocationSummary built from the accumulators.
ReceiptSummaryOf(acc) ==
  [perParticipant |-> MapSeq(acc.perParticipantCents, ToReceiptShare),
   unassignedItemIds |-> acc.unassignedItemIds,
   total |-> ToFixed2((acc.totalCents * 1000) \div 100)]

(***************************************************************************)
(* The store (state/useLocalStore.ts).  An expense id is a number; 0 in a  *)
(* draft stands for an absent id.                                          *)
(***************************************************************************)
PayerAmount(allocation) == allocation.amount

\* normalisePayers; it throws on an empty list, which callers of the model
\* rule out before applying it.
normalisePayers(amount, payers) ==
  LET total == SumSeq(MapSeq(payers, PayerAmount))
      roundedTotal == ToFixed2(total)
      roundedAmount == ToFixed2(amount)
      difference == ToFixed2(roundedAmount - roundedTotal)
  IN  IF Abs(difference) > 10
      THEN <<[participantId |-> payers[1].participantId,
              amount |-> ToFixed2(payers[1].amount + difference)]>>
           \o Tail(payers)
      ELSE payers

\* Array.from(new Set(ids)): the first occurrence of every id, in order.
RECURSIVE Dedupe(_)
Dedupe(ids) ==
  IF ids = <<>> THEN <<>>
  ELSE LET front == Dedupe(SubSeq(ids, 1, Len(ids) - 1))
           last == ids[Len(ids)]
       IN  IF \E k \in 1..Len(front) : front[k] = last
           THEN front ELSE Append(front, last)

normaliseSplit(amount, split) ==
  IF split.type = "even"
  THEN [type |-> "even", participantIds |-> Dedupe(split.participantIds)]
  ELSE IF split.type = "shares"
  THEN LET positive == SelectSeq(split.shares, IsPositiveShare)
           totalWeight == SumSeq(MapSeq(positive, ShareWeight))
       IN  IF Len(positive) = 0 \/ totalWeight <= 0
           THEN [type |-> "even",
                 participantIds |-> MapSeq(split.shares, ShareParticipantId)]
           ELSE [type |-> "shares", shares |-> positive]
  ELSE LET total == SumSeq(MapSeq(split.allocations, PayerAmount))
           difference == ToFixed2(amount - total)
       IN  IF Abs(difference) > 10 /\ Len(split.allocations) > 0
           THEN [type |-> "exact",
                 allocations |->
                   <<[participantId |-> split.allocations[1].participantId,
                      amount |-> ToFixed2(split.allocations[1].amount + difference)]>>
                   \o Tail(split.allocations)]
           ELSE [type |-> "exact",
                 allocations |->
                   AsSeq([i \in 1..Len(split.allocations) |->
                           [participantId |-> split.allocations[i].participantId,
                            amount |-> ToFixed2(split.allocations[i].amount)]])]

\* removeParticipantFromSplit leaving the allocations of an exact split as
\* they are.
removeParticipantFromSplitKeepsExact(split, participantId) ==
  IF split.type = "even"
  THEN [type |-> "even",
        participantIds |-> SelectSeq(split.participantIds,
                                     LAMBDA id : id # participantId)]
  ELSE IF split.type = "shares"
  THEN [type |-> "shares",
        shares |-> SelectSeq(split.shares,
                             LAMBDA share : share.participantId # participantId)]
  ELSE split

removeParticipantFromSplit(split, participantId) ==
  IF split.type = "even"
  THEN [type |-> "even",
        participantIds |-> SelectSeq(split.participantIds,
                                     LAMBDA id : id # participantId)]
  ELSE IF split.type = "shares"
  THEN [type |-> "shares",
        shares |-> SelectSeq(split.shares,
                             LAMBDA share : share.participantId # participantId)]
  ELSE [type |-> "exact",
        allocations |-> SelectSeq(split.allocations,
                                  LAMBDA allocation :
                                    allocation.participantId # participantId)]

\* createExpense; newId is the id createId() makes up when the draft has
\* none.
createExpense(draft, newId) ==
  LET amount == ToFixed2(draft.amount)
  IN  [id |-> IF draft.id = 0 THEN newId ELSE draft.id,
       amount |-> amount,
       paidBy |-> normalisePayers(amount, draft.paidBy),
       split |-> normaliseSplit(amount, draft.split)]

\* updateExpenseEntity with the amount, payers and split of the draft
\* present, as the ExpenseDraft handed to upsertExpense has them.
updateExpenseEntity(current, updates) ==
  LET amount == ToFixed2(updates.amount)
  IN  [id |-> current.id,
       amount |-> amount,
       paidBy |-> normalisePayers(amount, updates.paidBy),
       split |-> normaliseSplit(amount, updates.split)]

HasParticipant(ev, participantId) ==
  \E k \in 1..Len(ev.participants) : ev.participants[k].id = participantId

\* The expense of remove-participant and delete-participant-completely: the
\* participant's payer allocations and split entries are filtered out.
ExpenseWithout(e, participantId) ==
  [id |-> e.id,
   amount |-> e.amount,
   paidBy |-> SelectSeq(e.paidBy,
                        LAMBDA payer : payer.participantId # participantId),
   split |-> removeParticipantFromSplit(e.split, participantId)]

EventWithout(ev, participantId) ==
  [id |-> ev.id,
   participants |-> SelectSeq(ev.participants,
                              LAMBDA participant : participant.id # participantId),
   expenses |-> AsSeq([k \in 1..Len(ev.expenses) |->
                        ExpenseWithout(ev.expenses[k], participantId)]),
   settlementTracking |-> ev.settlementTracking]

\* case 'remove-participant'
ReduceRemoveParticipant(state, eventId, participantId) ==
  LET events == AsSeq([k \in 1..Len(state.events) |->
                        IF state.events[k].id # eventId THEN state.events[k]
                        ELSE EventWithout(state.events[k], participantId)])
      removed == \E k \in 1..Len(state.events) :
                   /\ state.events[k].id = eventId
                   /\ HasParticipant(state.events[k], participantId)
      stillInEvents == \E k \in 1..Len(events) :
                         HasParticipant(events[k], participantId)
      alreadyUnassigned == \E k \in 1..Len(state.unassignedParticipants) :
                             state.unassignedParticipants[k].id = participantId
  IN  [events |-> events,
       unassignedParticipants |->
         IF removed /\ ~stillInEvents /\ ~alreadyUnassigned
         THEN Append(state.unassignedParticipants, [id |-> participantId])
         ELSE state.unassignedParticipants]

\* case 'upsert-expense'
ReduceUpsertExpense(state, eventId, e) ==
  [events |->
     AsSeq([k \in 1..Len(state.events) |->
             LET ev == state.events[k]
             IN  IF ev.id # eventId THEN ev
                 ELSE [id |-> ev.id,
                       participants |-> ev.participants,
                       expenses |->
                         IF \E i \in 1..Len(ev.expenses) : ev.expenses[i].id = e.id
                         THEN AsSeq([i \in 1..Len(ev.expenses) |->
                                      IF ev.expenses[i].id = e.id /\
                                         \A j \in 1..(i - 1) : ev.expenses[j].id # e.id
                                      THEN e ELSE ev.expenses[i]])
                         ELSE Append(ev.expenses, e),
                       settlementTracking |-> <<>>]]),
   unassignedParticipants |-> state.unassignedParticipants]

RenameId(id, participantId, newId) == IF id = participantId THEN newId ELSE id

RenameInSplit(split, participantId, newId) ==
  IF split.type = "even"
  THEN [type |-> "even",
        participantIds |->
          AsSeq([i \in 1..Len(split.participantIds) |->
                  RenameId(split.participantIds[i], participantId, newId)])]
  ELSE IF split.type = "shares"
  THEN [type |-> "shares",
        shares |->
          AsSeq([i \in 1..Len(split.shares) |->
                  [participantId |-> RenameId(split.shares[i].participantId,
                                              participantId, newId),
                   weight |-> split.shares[i].weight]])]
  ELSE [type |-> "exact",
        allocations |->
          AsSeq([i \in 1..Len(split.allocations) |->
                  [participantId |-> RenameId(split.allocations[i].participantId,
                                              participantId, newId),
                   amount |-> split.allocations[i].amount]])]

\* case 'update-participant-id': every event that has the participant is
\* rewritten, whatever the eventId of the action.
ReduceUpdateParticipantId(state, participantId, newId) ==
  [events |->
     AsSeq([k \in 1..Len(state.events) |->
             LET ev == state.events[k]
             IN  IF ~HasParticipant(ev, participantId) THEN ev
                 ELSE [id |-> ev.id,
                       participants |->
                         AsSeq([i \in 1..Len(ev.participants) |->
                                 [id |-> RenameId(ev.participants[i].id,
                                                  participantId, newId)]]),
                       expenses |->
                         AsSeq([i \in 1..Len(ev.expenses) |->
                                 [id |-> ev.expenses[i].id,
                                  amount |-> ev.expenses[i].amount,
                                  paidBy |->
                                    AsSeq([j \in 1..Len(ev.expenses[i].paidBy) |->
                                            [participantId |->
                                               RenameId(ev.expenses[i].paidBy[j].participantId,
                                                        participantId, newId),
                                             amount |-> ev.expenses[i].paidBy[j].amount]]),
                                  split |-> RenameInSplit(ev.expenses[i].split,
                                                          participantId, newId)]]),
                       settlementTracking |->
                         AsSeq([i \in 1..Len(ev.settlementTracking) |->
                                 [ev.settlementTracking[i] EXCEPT
                                    !.fromParticipantId = RenameId(@, participantId, newId),
                                    !.toParticipantId = RenameId(@, participantId, newId)]])]]),
   unassignedParticipants |-> state.unassignedParticipants]

\* case 'delete-participant-completely'
ReduceDeleteParticipantCompletely(state, participantId) ==
  [events |->
     AsSeq([k \in 1..Len(state.events) |->
             IF ~HasParticipant(state.events[k], participantId)
             THEN state.events[k]
             ELSE EventWithout(state.events[k], participantId)]),
   unassignedParticipants |->
     SelectSeq(state.unassignedParticipants,
               LAMBDA participant : participant.id # participantId)]

\* 'upsert-participant' appending whether or not the id is already there.
ReduceUpsertParticipantAppends(state, eventId, participant) ==
  [events |->
     AsSeq([k \in 1..Len(state.events) |->
             LET ev == state.events[k]
             IN  IF ev.id # eventId THEN ev
                 ELSE [ev EXCEPT !.participants = Append(@, participant)]]),
   unassignedParticipants |-> state.unassignedParticipants]

\* case 'upsert-participant': the participant replaces the first one with
\* its id, or is appended.
ReduceUpsertParticipant(state, eventId, participant) ==
  [events |->
     AsSeq([k \in 1..Len(state.events) |->
             LET ev == state.events[k]
             IN  IF ev.id # eventId THEN ev
                 ELSE IF ~HasParticipant(ev, participant.id)
                 THEN [ev EXCEPT !.participants = Append(@, participant)]
                 ELSE [ev EXCEPT !.participants =
                         AsSeq([i \in 1..Len(ev.participants) |->
                                 IF ev.participants[i].id = participant.id /\
                                    \A j \in 1..(i - 1) :
                                      ev.participants[j].id # participant.id
                                 THEN participant ELSE ev.participants[i]])]]),
   unassignedParticipants |-> state.unassignedParticipants]

\* case 'remove-expense'
ReduceRemoveExpense(state, eventId, expenseId) ==
  [events |->
     AsSeq([k \in 1..Len(state.events) |->
             LET ev == state.events[k]
             IN  IF ev.id # eventId THEN ev
                 ELSE [ev EXCEPT
                         !.expenses = SelectSeq(@, LAMBDA e : e.id # expenseId),
                         !.settlementTracking = <<>>]]),
   unassignedParticipants |-> state.unassignedParticipants]

(***************************************************************************)
(* Settlement tracking.  A payment is [id, amount] and a tracking record   *)
(* [fromParticipantId, toParticipantId, payments, markedComplete]; the     *)
(* time stamps paidAt and markedCompleteAt are left out.                   *)
(***************************************************************************)
PaymentAmount(payment) == payment.amount

\* The payment lists (amounts of 0.01 and 0.06, up to four payments) whose
\* sum in doubles, added from 0 in list order, is below the double nearest
\* to the exact sum: 0.01 + 0.06 is 0.06999999999999999.  No list of these
\* amounts sums above it.
FpSumsBelow ==
  { <<10, 60>>, <<60, 10>>, <<10, 60, 10>>, <<60, 10, 10>>,
    <<10, 60, 10, 10>>, <<10, 60, 10, 60>>,
    <<60, 10, 10, 10>>, <<60, 10, 10, 60>> }

FpSumError(amounts) == IF amounts \in FpSumsBelow THEN -1 ELSE 0

\* The double settlementAmount - 0.01 against the double nearest to the
\* exact difference, for settlement amounts of 0.01 to 0.12:
\* 0.07 - 0.01 is 0.060000000000000005 and 0.03 - 0.01 is
\* 0.019999999999999997.
FpThresholdError(settlementAmount) ==
  IF settlementAmount \in {70, 100} THEN 1
  ELSE IF settlementAmount \in {30, 60} THEN -1
  ELSE 0

\* totalPaid >= settlementAmount - 0.01, as doubles compare.
IsComplete(payments, settlementAmount) ==
  LET amounts == MapSeq(payments, PaymentAmount)
      totalPaid == SumSeq(amounts)
      threshold == settlementAmount - 10
  IN  \/ totalPaid > threshold
      \/ /\ totalPaid = threshold
         /\ FpSumError(amounts) >= FpThresholdError(settlementAmount)

TrackingIndices(ev, fromId, toId) ==
  {i \in 1..Len(ev.settlementTracking) :
     /\ ev.settlementTracking[i].fromParticipantId = fromId
     /\ ev.settlementTracking[i].toParticipantId = toId}

getOrCreateSettlementTracking(ev, fromId, toId) ==
  LET found == TrackingIndices(ev, fromId, toId)
  IN  IF found # {}
      THEN ev.settlementTracking[CHOOSE i \in found : \A j \in found : i <= j]
      ELSE [fromParticipantId |-> fromId,
            toParticipantId |-> toId,
            payments |-> <<>>,
            markedComplete |-> FALSE]

\* updateSettlementTracking; updated is what the updater makes of the record
\* of the pair, the existing one or the one getOrCreateSettlementTracking
\* creates.
updateSettlementTracking(ev, fromId, toId, updated) ==
  LET found == TrackingIndices(ev, fromId, toId)
      existingIndex == CHOOSE i \in found : \A j \in found : i <= j
  IN  IF found # {}
      THEN [ev EXCEPT !.settlementTracking =
              AsSeq([i \in 1..Len(ev.settlementTracking) |->
                      IF i = existingIndex
                      THEN updated
                      ELSE ev.settlementTracking[i]])]
      ELSE [ev EXCEPT !.settlementTracking =
              Append(@, updated)]

\* The updater of 'add-settlement-payment'; newId is what createId() makes
\* up.
WithPayment(tracking, amount, settlementAmount, newId) ==
  LET newPayments == Append(tracking.payments,
                            [id |-> newId, amount |-> ToFixed2(amount)])
  IN  [tracking EXCEPT
         !.payments = newPayments,
         !.markedComplete = IsComplete(newPayments, settlementAmount)]

\* The updater of 'remove-settlement-payment'.
WithoutPayment(tracking, paymentId, settlementAmount) ==
  LET newPayments == SelectSeq(tracking.payments, LAMBDA p : p.id # paymentId)
  IN  [tracking EXCEPT
         !.payments = newPayments,
         !.markedComplete = IsComplete(newPayments, settlementAmount)]

\* case 'add-settlement-payment'
ReduceAddSettlementPayment(state, eventId, fromId, toId, amount, settlementAmount, newId) ==
  [events |->
     AsSeq([k \in 1..Len(state.events) |->
             IF state.events[k].id # eventId THEN state.events[k]
             ELSE updateSettlementTracking(
                    state.events[k], fromId, toId,
                    WithPayment(
                      getOrCreateSettlementTracking(state.events[k], fromId, toId),
                      amount, settlementAmount, newId))]),
   unassignedParticipants |-> state.unassignedParticipants]

\* case 'remove-settlement-payment'
ReduceRemoveSettlementPayment(state, eventId, fromId, toId, paymentId, settlementAmount) ==
  [events |->
     AsSeq([k \in 1..Len(state.events) |->
             IF state.events[k].id # eventId THEN state.events[k]
             ELSE updateSettlementTracking(
                    state.events[k], fromId, toId,
                    WithoutPayment(
                      getOrCreateSettlementTracking(state.events[k], fromId, toId),
                      paymentId, settlementAmount))]),
   unassignedParticipants |-> state.unassignedParticipants]

\* case 'mark-settlement-complete'
ReduceMarkSettlementComplete(state, eventId, fromId, toId, complete) ==
  [events |->
     AsSeq([k \in 1..Len(state.events) |->
             IF state.events[k].id # eventId THEN state.events[k]
             ELSE updateSettlementTracking(
                    state.events[k], fromId, toId,
                    [getOrCreateSettlementTracking(state.events[k], fromId, toId)
                       EXCEPT !.markedComplete = complete])]),
   unassignedParticipants |-> state.unassignedParticipants]

(***************************************************************************)
(* Inputs of the distributor.                                              *)
(***************************************************************************)
Weights == (-1)..MaxWeight

\* Amounts up to MaxCents cents, some of them not whole cents.
Amounts == {4 * k : k \in 0..((5 * MaxCents) \div 2)}

AllocationAmounts == {v \in Amounts : v <= 20}

SplitIdLists == InjectiveSeqs(ParticipantIds)

EvenSplits == {[type |-> "even", participantIds |-> ids] : ids \in SplitIdLists}

SharesSplits ==
  UNION {{[type |-> "shares",
           shares |-> [i \in 1..Len(ids) |->
                        [participantId |-> ids[i], weight |-> w[i]]]] :
          w \in [1..Len(ids) -> Weights]} : ids \in SplitIdLists}

ExactSplits ==
  UNION {{[type |-> "exact",
           allocations |-> [i \in 1..Len(ids) |->
                             [participantId |-> ids[i], amount |-> v[i]]]] :
          v \in [1..Len(ids) -> AllocationAmounts]} : ids \in SplitIdLists}

Splits == EvenSplits \cup SharesSplits \cup ExactSplits

(***************************************************************************)
(* State.                                                                  *)
(***************************************************************************)
VARIABLES
  expense,        \* the expense handed to calculateExpenseShares
  shareCents,     \* the ShareCents[] the distributor produced for it
  shares,         \* the ExpenseShare[] calculateExpenseShares returned
  sharesPc,       \* "idle", "call" (before the call) or "done" (after it)
  balances,       \* the ParticipantBalance[] handed to suggestSettlements
  tolerance,      \* its tolerance argument
  creditors,      \* the sorted copies of the balances with net > tolerance
  debtors,        \* the sorted copies of the balances with net < -tolerance
  creditorOrigins,\* per creditor slot: 0 for a fresh object, else the index of
                  \* the input balance that is the very same object
  debtorOrigins,  \* the same for the debtor slots
  settlements,    \* the Settlement[] built so far
  creditorIndex,  \* the creditor pointer (0-based)
  debtorIndex,    \* the debtor pointer (0-based)
  settlePc,       \* "idle", "call", "loop" (at the while test) or "done"
  event,          \* the event handed to calculateEventBalances
  summary,        \* the EventBalanceSummary it returned
  eventPc,        \* "idle", "call" or "done"
  decimal,        \* the decimal amount handed to toCents
  cents,          \* the integer cents toCents returned for it
  roundTrip,      \* the decimal fromCents returned for those cents
  roundPc,        \* "idle", "toCents", "fromCents" or "done"
  items,          \* the ReceiptLineItem[] handed to calculateReceiptAllocations
  itemIndex,      \* the number of items items.forEach has gone through
  allocation,     \* perParticipantCents, unassignedItemIds and totalCents
  receipt,        \* the ReceiptAllocationSummary returned
  receiptPc,      \* "idle", "items" (in items.forEach) or "done"
  store,          \* the SplitState of the store: events, unassignedParticipants
  storeSteps      \* the number of store actions dispatched so far

sharesVars == <<expense, shareCents, shares, sharesPc>>

settleVars == <<balances, tolerance, creditors, debtors, creditorOrigins,
                debtorOrigins, settlements,
                creditorIndex, debtorIndex, settlePc>>

eventVars == <<event, summary, eventPc>>

roundVars == <<decimal, cents, roundTrip, roundPc>>

receiptVars == <<items, itemIndex, allocation, receipt, receiptPc>>

storeVars == <<store, storeSteps>>

vars == <<sharesVars, settleVars, eventVars, roundVars, receiptVars, storeVars>>

NoExpense == [amount |-> 0, paidBy |-> <<>>,
              split |-> [type |-> "even", participantIds |-> <<>>]]

SharesIdle ==
  /\ expense = NoExpense
  /\ shareCents = <<>>
  /\ shares = <<>>
  /\ sharesPc = "idle"

SettleIdle ==
  /\ balances = <<>>
  /\ tolerance = DefaultTolerance
  /\ creditors = <<>>
  /\ debtors = <<>>
  /\ creditorOrigins = <<>>
  /\ debtorOrigins = <<>>
  /\ settlements = <<>>
  /\ creditorIndex = 0
  /\ debtorIndex = 0
  /\ settlePc = "idle"

NoSummary == [totals |-> [participants |-> 0, expenses |-> 0], balances |-> <<>>]

EventIdle ==
  /\ event = [participants |-> <<>>, expenses |-> <<>>]
  /\ summary = NoSummary
  /\ eventPc = "idle"

RoundIdle ==
  /\ decimal = 0
  /\ cents = 0
  /\ roundTrip = 0
  /\ roundPc = "idle"

NoAllocation ==
  [perParticipantCents |-> <<>>, unassignedItemIds |-> <<>>, totalCents |-> 0]

ReceiptIdle ==
  /\ items = <<>>
  /\ itemIndex = 0
  /\ allocation = NoAllocation
  /\ receipt = ReceiptSummaryOf(NoAllocation)
  /\ receiptPc = "idle"

EmptyStore == [events |-> <<>>, unassignedParticipants |-> <<>>]

StoreIdle ==
  /\ store = EmptyStore
  /\ storeSteps = 0

\* Every component but one at rest, and the variables of those components.
IdleButShares == SettleIdle /\ EventIdle /\ RoundIdle /\ ReceiptIdle /\ StoreIdle

IdleButSettle == SharesIdle /\ EventIdle /\ RoundIdle /\ ReceiptIdle /\ StoreIdle

IdleButEvent == SharesIdle /\ SettleIdle /\ RoundIdle /\ ReceiptIdle /\ StoreIdle

IdleButRound == SharesIdle /\ SettleIdle /\ EventIdle /\ ReceiptIdle /\ StoreIdle

IdleButReceipt == SharesIdle /\ SettleIdle /\ EventIdle /\ RoundIdle /\ StoreIdle

IdleButStore == SharesIdle /\ SettleIdle /\ EventIdle /\ RoundIdle /\ ReceiptIdle

varsButShares == <<settleVars, eventVars, roundVars, receiptVars, storeVars>>

varsButSettle == <<sharesVars, eventVars, roundVars, receiptVars, storeVars>>

varsButEvent == <<sharesVars, settleVars, roundVars, receiptVars, storeVars>>

varsButRound == <<sharesVars, settleVars, eventVars, receiptVars, storeVars>>

varsButReceipt == <<sharesVars, settleVars, eventVars, roundVars, storeVars>>

varsButStore == <<sharesVars, settleVars, eventVars, roundVars, receiptVars>>

(***************************************************************************)
(* calculateExpenseShares applied to one expense.                          *)
(***************************************************************************)
InitShares ==
  /\ expense \in {[amount |-> amount, paidBy |-> <<>>, split |-> split] :
                   amount \in Amounts, split \in Splits}
  /\ shareCents = <<>>
  /\ shares = <<>>
  /\ sharesPc = "call"
  /\ IdleButShares

CalculateExpenseShares ==
  /\ sharesPc = "call"
  /\ shareCents' = DistributeSplit(expense)
  /\ shares' = calculateExpenseShares(expense)
  /\ sharesPc' = "done"
  /\ UNCHANGED <<expense, varsButShares>>

NextShares == CalculateExpenseShares

SpecShares == InitShares /\ [][NextShares]_vars

(***************************************************************************)
(* suggestSettlements applied to one list of balances, one loop iteration  *)
(* per step.                                                               *)
(***************************************************************************)
SettleIds == <<"a", "b", "c", "d">>

\* Nets of whole cents between -MaxNet and MaxNet cents.
Nets == {10 * k : k \in (-MaxNet)..MaxNet}

Tolerances == {0, DefaultTolerance, 2 * DefaultTolerance}

BalanceWithNet(participantId, net) ==
  [participantId |-> participantId,
   paid |-> IF net > 0 THEN net ELSE 0,
   owes |-> IF net < 0 THEN -net ELSE 0,
   net |-> net]

InitSettle ==
  /\ IdleButSettle
  /\ balances \in {[i \in 1..Len(SettleIds) |-> BalanceWithNet(SettleIds[i], net[i])] :
                    net \in [1..Len(SettleIds) -> Nets]}
  /\ tolerance \in Tolerances
  /\ creditors = <<>>
  /\ debtors = <<>>
  /\ creditorOrigins = <<>>
  /\ debtorOrigins = <<>>
  /\ settlements = <<>>
  /\ creditorIndex = 0
  /\ debtorIndex = 0
  /\ settlePc = "call"

\* Lines 436-448: partition, sort, initialise the pointers.
SettleEnter ==
  /\ settlePc = "call"
  /\ creditors' = SortCreditors(balances, tolerance)
  /\ debtors' = SortDebtors(balances, tolerance)
  /\ creditorOrigins' = CreditorOrigins(balances, tolerance)
  /\ debtorOrigins' = DebtorOrigins(balances, tolerance)
  /\ settlements' = <<>>
  /\ creditorIndex' = 0
  /\ debtorIndex' = 0
  /\ settlePc' = "loop"
  /\ UNCHANGED <<balances, tolerance, varsButSettle>>

\* Lines 450-470: one iteration of the while loop.
SettleStep ==
  /\ settlePc = "loop"
  /\ creditorIndex < Len(creditors)
  /\ debtorIndex < Len(debtors)
  /\ LET creditor == creditors[creditorIndex + 1]
         debtor == debtors[debtorIndex + 1]
         amount == SettlementAmount(creditor, debtor)
         creditorNet == ToFixed2(creditor.net - amount)
         debtorNet == ToFixed2(debtor.net + amount)
     IN  /\ settlements' = Append(settlements,
                                  [from |-> debtor.participantId,
                                   to |-> creditor.participantId,
                                   amount |-> ToFixed2(amount)])
         /\ creditors' = [creditors EXCEPT ![creditorIndex + 1].net = creditorNet]
         /\ debtors' = [debtors EXCEPT ![debtorIndex + 1].net = debtorNet]
         /\ balances' = WriteNet(WriteNet(balances,
                                          creditorOrigins[creditorIndex + 1],
                                          creditorNet),
                                 debtorOrigins[debtorIndex + 1], debtorNet)
         /\ creditorIndex' = IF creditorNet <= tolerance
                             THEN creditorIndex + 1 ELSE creditorIndex
         /\ debtorIndex' = IF Abs(debtorNet) <= tolerance
                           THEN debtorIndex + 1 ELSE debtorIndex
  /\ UNCHANGED <<tolerance, creditorOrigins, debtorOrigins, settlePc,
                 varsButSettle>>

\* Line 472: the while test fails and the settlements are returned.
SettleReturn ==
  /\ settlePc = "loop"
  /\ ~(creditorIndex < Len(creditors) /\ debtorIndex < Len(debtors))
  /\ settlePc' = "done"
  /\ UNCHANGED <<balances, tolerance, creditors, debtors, creditorOrigins,
                 debtorOrigins, settlements,
                 creditorIndex, debtorIndex, varsButSettle>>

NextSettle == SettleEnter \/ SettleStep \/ SettleReturn

SpecSettle == InitSettle /\ [][NextSettle]_vars

\* suggestSettlements runs to completion once called: JavaScript executes
\* the synchronous loop without interruption.
SpecSettleFair == SpecSettle /\ WF_vars(NextSettle)

(***************************************************************************)
(* calculateEventBalances applied to one event.                            *)
(***************************************************************************)
\* The declared participants; an id of ParticipantIds that is not declared is
\* a stray id wherever an expense mentions it.
EventParticipantLists == {<<"a", "b", "c">>, <<"b", "a">>, <<"c">>}

EventAmounts == {30, 40}

EventPayerLists(amount) ==
  {<<[participantId |-> p, amount |-> amount]>> : p \in {"a", "c"}}
    \cup {<<[participantId |-> "a", amount |-> 10],
            [participantId |-> "b", amount |-> amount - 10]>>}

EventSplits ==
  { [type |-> "even", participantIds |-> <<"c", "a", "b">>],
    [type |-> "even", participantIds |-> <<"b", "a">>],
    [type |-> "shares",
     shares |-> <<[participantId |-> "a", weight |-> 1],
                  [participantId |-> "b", weight |-> 4],
                  [participantId |-> "c", weight |-> 1]>>],
    [type |-> "shares",
     shares |-> <<[participantId |-> "b", weight |-> 2],
                  [participantId |-> "a", weight |-> 0],
                  [participantId |-> "c", weight |-> 1]>>],
    [type |-> "exact",
     allocations |-> <<[participantId |-> "a", amount |-> 10],
                       [participantId |-> "c", amount |-> 16]>>] }

EventExpenses ==
  UNION {{[amount |-> amount, paidBy |-> paidBy, split |-> split] :
          paidBy \in EventPayerLists(amount), split \in EventSplits} :
         amount \in EventAmounts}

EventWith(ids, expenses) ==
  [participants |-> AsSeq([i \in 1..Len(ids) |-> [id |-> ids[i]]]),
   expenses |-> AsSeq(expenses)]

InitEvent ==
  /\ IdleButEvent
  /\ \E ids \in EventParticipantLists, n \in 0..MaxExpenses :
       \E expenses \in [1..n -> EventExpenses] :
         event = EventWith(ids, expenses)
  /\ summary = NoSummary
  /\ eventPc = "call"

CalculateEventBalances ==
  /\ eventPc = "call"
  /\ summary' = calculateEventBalances(event)
  /\ eventPc' = "done"
  /\ UNCHANGED <<event, varsButEvent>>

NextEvent == CalculateEventBalances

SpecEvent == InitEvent /\ [][NextEvent]_vars

(***************************************************************************)
(* toCents followed by fromCents, applied to one decimal amount.           *)
(***************************************************************************)
\* The decimals handed to toCents, in mills: every amount of up to three
\* decimal places between -MaxCents and MaxCents cents.
Decimals == (-10 * MaxCents)..(10 * MaxCents)

\* The double value * CENT_FACTOR lies within a rounding error of the exact
\* product; the error is counted in units of DriftUnit per cent.
DriftUnit == 1000

FpDrifts == {-1, 0, 1}

\* toCents with Math.floor in place of Math.round.
toCentsFloor(value, drift) ==
  (value * CENT_FACTOR * DriftUnit + drift) \div (1000 * DriftUnit)

\* toCents(value) where the double product value * CENT_FACTOR is off the
\* exact product by drift / DriftUnit cents.
toCentsOfDouble(value, drift) ==
  MathRound(value * CENT_FACTOR * DriftUnit + drift, 1000 * DriftUnit)

InitRound ==
  /\ IdleButRound
  /\ decimal \in Decimals
  /\ cents = 0
  /\ roundTrip = 0
  /\ roundPc = "toCents"

ToCents ==
  /\ roundPc = "toCents"
  /\ \E drift \in FpDrifts : cents' = toCentsOfDouble(decimal, drift)
  /\ roundPc' = "fromCents"
  /\ UNCHANGED <<decimal, roundTrip, varsButRound>>

FromCents ==
  /\ roundPc = "fromCents"
  /\ roundTrip' = fromCents(cents)
  /\ roundPc' = "done"
  /\ UNCHANGED <<decimal, cents, varsButRound>>

NextRound == ToCents \/ FromCents

SpecRound == InitRound /\ [][NextRound]_vars

(***************************************************************************)
(* calculateReceiptAllocations applied to one list of items, one item per  *)
(* step.                                                                   *)
(***************************************************************************)
ItemIds == <<"x", "y", "z", "w">>

\* Item amounts of 0.03, 0.048, 9.00 and 12.00.
ItemAmounts == {30, 48, 9000, 12000}

\* The participants an item is assigned to: nobody, one, two in either
\* order, or all three.
AssignedIdLists ==
  {ids \in SplitIdLists : Len(ids) <= 2} \cup {<<"c", "a", "b">>}

ItemWith(id, amount, assignedParticipantIds) ==
  [id |-> id, amount |-> amount, assignedParticipantIds |-> assignedParticipantIds]

InitReceipt ==
  /\ IdleButReceipt
  /\ \E n \in 0..MaxItems :
       \E amount \in [1..n -> ItemAmounts], assigned \in [1..n -> AssignedIdLists] :
         items = [i \in 1..n |-> ItemWith(ItemIds[i], amount[i], assigned[i])]
  /\ itemIndex = 0
  /\ allocation = NoAllocation
  /\ receipt = ReceiptSummaryOf(NoAllocation)
  /\ receiptPc = "items"

\* Lines 14-34: one call of the items.forEach callback.
ReceiptItem ==
  /\ receiptPc = "items"
  /\ itemIndex < Len(items)
  /\ allocation' = AllocateItem(allocation, items[itemIndex + 1])
  /\ itemIndex' = itemIndex + 1
  /\ UNCHANGED <<items, receipt, receiptPc, varsButReceipt>>

\* Lines 36-48: the accumulators are converted to decimals and returned.
ReceiptReturn ==
  /\ receiptPc = "items"
  /\ itemIndex = Len(items)
  /\ receipt' = ReceiptSummaryOf(allocation)
  /\ receiptPc' = "done"
  /\ UNCHANGED <<items, itemIndex, allocation, varsButReceipt>>

NextReceipt == ReceiptItem \/ ReceiptReturn

SpecReceipt == InitReceipt /\ [][NextReceipt]_vars

(***************************************************************************)
(* The store: two events, and up to MaxStoreSteps actions dispatched on    *)
(* them.                                                                   *)
(***************************************************************************)
StoreEventIds == {"e1", "e2"}

\* Draft amounts of 0.02 and 0.03.
StoreAmounts == {20, 30}

\* Payers as the expense form hands them over: one payer of 0.01, payers of
\* 0.02 and 0.01, one payer of 0.02.
StorePayerLists ==
  { <<[participantId |-> "a", amount |-> 10]>>,
    <<[participantId |-> "a", amount |-> 20],
      [participantId |-> "b", amount |-> 10]>>,
    <<[participantId |-> "b", amount |-> 20]>> }

StoreSplits ==
  { [type |-> "even", participantIds |-> <<"a", "b">>],
    [type |-> "even", participantIds |-> <<"a">>],
    [type |-> "exact",
     allocations |-> <<[participantId |-> "a", amount |-> 10],
                       [participantId |-> "b", amount |-> 10]>>] }

\* The ids a draft can carry: none (0) or that of the first expense made.
StoreDraftIds == {0, 1}

StoreDrafts ==
  {[id |-> id, amount |-> amount, paidBy |-> paidBy, split |-> split] :
     id \in StoreDraftIds, amount \in StoreAmounts,
     paidBy \in StorePayerLists, split \in StoreSplits}

\* The ids updateParticipantId can be asked to rename a participant to.
StoreNewIds == ParticipantIds \cup {"d"}

StoreEvent(eventId) ==
  LET k == CHOOSE k \in 1..Len(store.events) : store.events[k].id = eventId
  IN  store.events[k]

AllExpenseIds ==
  UNION {{store.events[k].expenses[i].id : i \in 1..Len(store.events[k].expenses)} :
           k \in 1..Len(store.events)}

\* createId(): an id no stored expense has.
NewExpenseId ==
  1 + (IF AllExpenseIds = {} THEN 0
       ELSE CHOOSE id \in AllExpenseIds : \A other \in AllExpenseIds : other <= id)

InitStore ==
  /\ IdleButStore
  /\ store = [events |->
                <<EventWith(<<"a", "b", "c">>, <<>>)
                    @@ [id |-> "e1", settlementTracking |-> <<>>],
                  EventWith(<<"a", "b">>, <<>>)
                    @@ [id |-> "e2", settlementTracking |-> <<>>]>>,
              unassignedParticipants |-> <<>>]
  /\ storeSteps = 0

\* upsertExpense (lines 760-770) and the reducer's 'upsert-expense', for a
\* draft out of drafts.
UpsertExpenseOf(drafts) ==
  /\ storeSteps < MaxStoreSteps
  /\ \E eventId \in StoreEventIds, draft \in drafts :
       LET ev == StoreEvent(eventId)
           found == {i \in 1..Len(ev.expenses) :
                       draft.id # 0 /\ ev.expenses[i].id = draft.id}
           first == CHOOSE i \in found : \A j \in found : i <= j
           e == IF found # {}
                THEN updateExpenseEntity(ev.expenses[first], draft)
                ELSE createExpense(draft, NewExpenseId)
       IN  /\ Len(draft.paidBy) > 0
           /\ store' = ReduceUpsertExpense(store, eventId, e)
  /\ storeSteps' = storeSteps + 1
  /\ UNCHANGED varsButStore

UpsertExpense == UpsertExpenseOf(StoreDrafts)

\* removeParticipant (lines 756-758) and the reducer's 'remove-participant'.
RemoveParticipant ==
  /\ storeSteps < MaxStoreSteps
  /\ \E eventId \in StoreEventIds, participantId \in ParticipantIds :
       store' = ReduceRemoveParticipant(store, eventId, participantId)
  /\ storeSteps' = storeSteps + 1
  /\ UNCHANGED varsButStore

\* deleteParticipantCompletely (lines 850-852) and its reducer case.
DeleteParticipantCompletely ==
  /\ storeSteps < MaxStoreSteps
  /\ \E participantId \in ParticipantIds :
       store' = ReduceDeleteParticipantCompletely(store, participantId)
  /\ storeSteps' = storeSteps + 1
  /\ UNCHANGED varsButStore

\* The ids of the participants other than participantId, in the events and
\* among the unassigned participants.
OtherParticipantIds(participantId) ==
  (UNION {{store.events[k].participants[i].id :
             i \in 1..Len(store.events[k].participants)} :
            k \in 1..Len(store.events)}
   \cup {store.unassignedParticipants[i].id :
           i \in 1..Len(store.unassignedParticipants)})
  \ {participantId}

\* updateParticipantId (lines 819-838), which throws when the new id is
\* taken, and the reducer's 'update-participant-id'.
UpdateParticipantId ==
  /\ storeSteps < MaxStoreSteps
  /\ \E participantId \in ParticipantIds, newId \in StoreNewIds :
       /\ newId \notin OtherParticipantIds(participantId)
       /\ store' = ReduceUpdateParticipantId(store, participantId, newId)
  /\ storeSteps' = storeSteps + 1
  /\ UNCHANGED varsButStore

NextStore ==
  \/ UpsertExpense
  \/ RemoveParticipant
  \/ DeleteParticipantCompletely
  \/ UpdateParticipantId

SpecStore == InitStore /\ [][NextStore]_vars

(***************************************************************************)
(* The store's participants: the same two events, with participants        *)
(* upserted, removed, renamed and deleted.                                 *)
(***************************************************************************)
\* The id of a participant draft; "" stands for an absent id.
ParticipantDraftIds == StoreNewIds \cup {""}

\* createParticipant; generatedId is what generateParticipantId(draft.name)
\* returns.
createParticipant(draft, generatedId) ==
  [id |-> IF draft.id = "" THEN generatedId ELSE draft.id]

\* updateParticipantEntity: the id is that of the current participant.
updateParticipantEntity(current, updates) == [id |-> current.id]

\* upsertParticipant (lines 742-754) and the reducer's 'upsert-participant'.
UpsertParticipant ==
  /\ storeSteps < MaxStoreSteps
  /\ \E eventId \in StoreEventIds, draftId \in ParticipantDraftIds,
        generatedId \in StoreNewIds :
       LET ev == StoreEvent(eventId)
           draft == [id |-> draftId]
           existing == {i \in 1..Len(ev.participants) :
                          draft.id # "" /\ ev.participants[i].id = draft.id}
           first == CHOOSE i \in existing : \A j \in existing : i <= j
           participant == IF existing # {}
                          THEN updateParticipantEntity(ev.participants[first], draft)
                          ELSE createParticipant(draft, generatedId)
       IN  store' = ReduceUpsertParticipant(store, eventId, participant)
  /\ storeSteps' = storeSteps + 1
  /\ UNCHANGED varsButStore

NextParticipants ==
  \/ UpsertParticipant
  \/ RemoveParticipant
  \/ UpdateParticipantId
  \/ DeleteParticipantCompletely

SpecParticipants == InitStore /\ [][NextParticipants]_vars

(***************************************************************************)
(* The store's settlement tracking: payments recorded on the settlements   *)
(* of the two events while their expenses and participants change.         *)
(***************************************************************************)
\* The (from, to) pairs payments are recorded on.
TrackingPairs == {<<"a", "b">>, <<"c", "a">>}

\* Payments of 0.01 and 0.06 on settlements of 0.02 and 0.07.
PaymentAmounts == {10, 60}

SettlementAmounts == {20, 70}

\* The payment ids removeSettlementPayment can be handed.
StorePaymentIds == {1, 2}

StoreExpenseIds == {1, 2}

TrackingDrafts ==
  {[id |-> id, amount |-> 20,
    paidBy |-> <<[participantId |-> "b", amount |-> 20]>>,
    split |-> [type |-> "even", participantIds |-> <<"a", "b">>]] :
     id \in StoreDraftIds}

AllPaymentIds ==
  UNION {UNION {{store.events[k].settlementTracking[i].payments[j].id :
                   j \in 1..Len(store.events[k].settlementTracking[i].payments)} :
                  i \in 1..Len(store.events[k].settlementTracking)} :
           k \in 1..Len(store.events)}

\* createId('payment'): an id no recorded payment has.
NewPaymentId ==
  1 + (IF AllPaymentIds = {} THEN 0
       ELSE CHOOSE id \in AllPaymentIds : \A other \in AllPaymentIds : other <= id)

\* The first event has an expense of 0.03 that a and b paid and share.
InitTracking ==
  /\ IdleButStore
  /\ store = [events |->
                <<[id |-> "e1",
                   participants |-> <<[id |-> "a"], [id |-> "b"], [id |-> "c"]>>,
                   expenses |->
                     <<createExpense(
                         [id |-> 0, amount |-> 30,
                          paidBy |-> <<[participantId |-> "a", amount |-> 20],
                                       [participantId |-> "b", amount |-> 10]>>,
                          split |-> [type |-> "even",
                                     participantIds |-> <<"a", "b">>]], 1)>>,
                   settlementTracking |-> <<>>],
                  [id |-> "e2",
                   participants |-> <<[id |-> "a"], [id |-> "b"]>>,
                   expenses |-> <<>>,
                   settlementTracking |-> <<>>]>>,
              unassignedParticipants |-> <<>>]
  /\ storeSteps = 0

UpsertTrackedExpense == UpsertExpenseOf(TrackingDrafts)

\* removeExpense (lines 772-774) and the reducer's 'remove-expense'.
RemoveExpense ==
  /\ storeSteps < MaxStoreSteps
  /\ \E eventId \in StoreEventIds, expenseId \in StoreExpenseIds :
       store' = ReduceRemoveExpense(store, eventId, expenseId)
  /\ storeSteps' = storeSteps + 1
  /\ UNCHANGED varsButStore

\* addSettlementPayment (lines 776-781) and its reducer case.
AddSettlementPayment ==
  /\ storeSteps < MaxStoreSteps
  /\ \E eventId \in StoreEventIds, pair \in TrackingPairs,
        amount \in PaymentAmounts, settlementAmount \in SettlementAmounts :
       store' = ReduceAddSettlementPayment(store, eventId, pair[1], pair[2],
                                           amount, settlementAmount,
                                           NewPaymentId)
  /\ storeSteps' = storeSteps + 1
  /\ UNCHANGED varsButStore

\* removeSettlementPayment (lines 783-788) and its reducer case.
RemoveSettlementPayment ==
  /\ storeSteps < MaxStoreSteps
  /\ \E eventId \in StoreEventIds, pair \in TrackingPairs,
        paymentId \in StorePaymentIds, settlementAmount \in SettlementAmounts :
       store' = ReduceRemoveSettlementPayment(store, eventId, pair[1], pair[2],
                                              paymentId, settlementAmount)
  /\ storeSteps' = storeSteps + 1
  /\ UNCHANGED varsButStore

\* markSettlementComplete (lines 790-795) and its reducer case.
MarkSettlementComplete ==
  /\ storeSteps < MaxStoreSteps
  /\ \E eventId \in StoreEventIds, pair \in TrackingPairs, complete \in BOOLEAN :
       store' = ReduceMarkSettlementComplete(store, eventId, pair[1], pair[2],
                                             complete)
  /\ storeSteps' = storeSteps + 1
  /\ UNCHANGED varsButStore

NextTracking ==
  \/ AddSettlementPayment
  \/ RemoveSettlementPayment
  \/ MarkSettlementComplete
  \/ UpsertTrackedExpense
  \/ RemoveExpense
  \/ RemoveParticipant
  \/ DeleteParticipantCompletely

SpecTracking == InitTracking /\ [][NextTracking]_vars

(***************************************************************************)
(* The engine: any one of its functions applied to any one input.          *)
(***************************************************************************)
InitEngine == InitShares \/ InitSettle \/ InitEvent \/ InitReceipt

NextEngine == NextShares \/ NextSettle \/ NextEvent \/ NextReceipt

SpecEngine == InitEngine /\ [][NextEngine]_vars

(***************************************************************************)
(* Properties of the split distributor (SpecShares).                       *)
(***************************************************************************)
TotalCents == toCents(expense.amount)

SumCents(entries) == SumSeq(MapSeq(entries, EntryCents))

EvenDone == sharesPc = "done" /\ expense.split.type = "even"

SharesDone ==
  /\ sharesPc = "done"
  /\ expense.split.type = "shares"
  /\ \E i \in 1..Len(expense.split.shares) : expense.split.shares[i].weight > 0

ExactDone == sharesPc = "done" /\ expense.split.type = "exact"

\* C2: an even split of a positive number of cents over n >= 1 participants
\* sums to exactly that number of cents, and every share is floor(total / n)
\* or floor(total / n) + 1.
C2_EvenSplitSumsToTotal ==
  (EvenDone /\ TotalCents > 0 /\ Len(expense.split.participantIds) >= 1) =>
    LET n == Len(expense.split.participantIds)
    IN  /\ Len(shareCents) = n
        /\ SumCents(shareCents) = TotalCents
        /\ \A i \in 1..n :
             shareCents[i].cents \in {TotalCents \div n, (TotalCents \div n) + 1}

\* C2 witness: an even split over several participants whose total does not
\* divide evenly has been distributed.
C2_Witness ==
  /\ EvenDone
  /\ Len(expense.split.participantIds) = 3
  /\ TotalCents = 5
  /\ SumCents(shareCents) = 5

\* C3: with remainder = total - floor(total / n) * n, exactly the first
\* `remainder` participants of the given list receive base + 1 cents, the
\* later ones base, and the output follows the given order.
C3_EvenSplitRemainderOrder ==
  (EvenDone /\ Len(expense.split.participantIds) >= 1) =>
    LET ids == expense.split.participantIds
        n == Len(ids)
        base == TotalCents \div n
        remainder == TotalCents - base * n
    IN  /\ Len(shareCents) = n
        /\ \A i \in 1..n :
             /\ shareCents[i].participantId = ids[i]
             /\ shareCents[i].cents = (IF i <= remainder THEN base + 1 ELSE base)

\* C3 witness: a list that is not in id order, with a remainder that reaches
\* some but not all participants.
C3_Witness ==
  /\ EvenDone
  /\ expense.split.participantIds = <<"c", "a", "b">>
  /\ TotalCents = 4
  /\ shareCents[1].cents = 2
  /\ shareCents[2].cents = 1

\* C4: a shares split with at least one positive weight sums to exactly the
\* total number of cents.
C4_SharesSplitSumsToTotal ==
  SharesDone => SumCents(shareCents) = TotalCents

\* C4 witness: three unequal positive weights and a total that leaves cents
\* over after flooring.
C4_Witness ==
  /\ SharesDone
  /\ Len(expense.split.shares) = 3
  /\ \A i \in 1..3 : expense.split.shares[i].weight = i
  /\ TotalCents = 5
  /\ SumCents(shareCents) = 5

\* Largest-remainder apportionment in exact arithmetic: the cents of the
\* positive-weight participant at position i of the positive shares.
LargestRemainderCents(totalCents, positiveShares, i) ==
  LET totalWeight == SumSeq(MapSeq(positiveShares, ShareWeight))
      n == Len(positiveShares)
      floorOf(j) == (positiveShares[j].weight * totalCents) \div totalWeight
      fractionOf(j) == (positiveShares[j].weight * totalCents) % totalWeight
      leftover == totalCents - SumSeq([j \in 1..n |-> floorOf(j)])
      rank == 1 + Cardinality({j \in 1..n :
                                 \/ fractionOf(j) > fractionOf(i)
                                 \/ fractionOf(j) = fractionOf(i) /\ j < i})
  IN  floorOf(i) + (IF rank <= leftover THEN 1 ELSE 0)

CentsOf(entries, participantId) ==
  SumSeq([k \in 1..Len(entries) |->
           IF entries[k].participantId = participantId
           THEN entries[k].cents ELSE 0])

\* C5: every positive-weight participant gets floor(weight / totalWeight *
\* total) cents, and the leftover cents go one each to the participants in
\* order of descending fractional remainder, equal remainders served in list
\* order.
C5_LargestRemainder ==
  SharesDone =>
    LET positiveShares == SelectSeq(expense.split.shares, IsPositiveShare)
    IN  /\ Len(shareCents) = Len(positiveShares)
        /\ \A i \in 1..Len(positiveShares) :
             CentsOf(shareCents, positiveShares[i].participantId)
               = LargestRemainderCents(TotalCents, positiveShares, i)

\* C6: an exact split converts every stated allocation to cents, adds the
\* whole difference to the total to the first allocation and leaves the
\* others as stated, so a non-empty list sums to exactly the total.
C6_ExactSplitCorrection ==
  (ExactDone /\ Len(expense.split.allocations) >= 1) =>
    LET allocations == expense.split.allocations
        stated == [i \in 1..Len(allocations) |-> toCents(allocations[i].amount)]
    IN  /\ Len(shareCents) = Len(allocations)
        /\ \A i \in 1..Len(allocations) :
             shareCents[i].participantId = allocations[i].participantId
        /\ shareCents[1].cents = stated[1] + (TotalCents - SumSeq(stated))
        /\ \A i \in 2..Len(allocations) : shareCents[i].cents = stated[i]
        /\ SumCents(shareCents) = TotalCents

\* C6 witness: allocations that sum to one cent less than the total; the
\* first allocation has absorbed exactly that cent.
C6_Witness ==
  /\ ExactDone
  /\ Len(expense.split.allocations) = 3
  /\ SumSeq([i \in 1..3 |-> toCents(expense.split.allocations[i].amount)])
       = TotalCents - 1
  /\ shareCents[1].cents = toCents(expense.split.allocations[1].amount) + 1
  /\ shareCents[3].cents = toCents(expense.split.allocations[3].amount)

(***************************************************************************)
(* Properties of the settlement reducer (SpecSettle).                      *)
(***************************************************************************)
SettleDone == settlePc = "done"

SumNets == SumSeq(MapSeq(balances, BalanceNet))

\* A participant's net after every returned settlement is applied: the
\* amount is added to the payer's net and subtracted from the receiver's.
AdjustedNet(balance) ==
  balance.net
    + SumSeq([k \in 1..Len(settlements) |->
               IF settlements[k].from = balance.participantId
               THEN settlements[k].amount ELSE 0])
    - SumSeq([k \in 1..Len(settlements) |->
               IF settlements[k].to = balance.participantId
               THEN settlements[k].amount ELSE 0])

\* C1: for balances whose nets sum to zero, applying all returned
\* settlements leaves every participant's net within tolerance of zero.
C1_SettlementZeroSum ==
  (SettleDone /\ SumNets = 0) =>
    \A i \in 1..Len(balances) : Abs(AdjustedNet(balances[i])) <= tolerance

NumCreditors == Cardinality({i \in 1..Len(balances) : balances[i].net > tolerance})

NumDebtors == Cardinality({i \in 1..Len(balances) : balances[i].net < -tolerance})

\* C10 as stated: at most len(creditors) + len(debtors) - 1 settlements for
\* any input balances.
C10_SettlementCountBound_Original ==
  SettleDone => Len(settlements) <= NumCreditors + NumDebtors - 1

\* C10 (amended): at most len(creditors) + len(debtors) - 1 settlements when
\* there is at least one creditor or debtor, and none when there is neither.
C10_SettlementCountBound ==
  SettleDone =>
    IF NumCreditors + NumDebtors = 0
    THEN Len(settlements) = 0
    ELSE Len(settlements) <= NumCreditors + NumDebtors - 1

\* C10 witness: two creditors and two debtors settled with exactly three
\* settlements, the bound.
C10_Witness ==
  /\ SettleDone
  /\ NumCreditors = 2
  /\ NumDebtors = 2
  /\ Len(settlements) = 3

(***************************************************************************)
(* Properties of the balance aggregator (SpecEvent).                       *)
(***************************************************************************)
EventDone == eventPc = "done"

DeclaredIds == {event.participants[i].id : i \in 1..Len(event.participants)}

PermutationsOf(s) ==
  {[i \in 1..Len(s) |-> s[p[i]]] : p \in Permutations(1..Len(s))}

\* C7: calculateEventBalances returns the same totals and the same paid, owes
\* and net of every participant for every permutation of the expense list.
C7_BalancesOrderIndependent ==
  EventDone =>
    \A expenses \in PermutationsOf(event.expenses) :
      calculateEventBalances([event EXCEPT !.expenses = expenses]) = summary

\* C7 witness: two different expenses that both charge and credit the same
\* participant have been aggregated.
C7_Witness ==
  /\ EventDone
  /\ Len(event.expenses) = 2
  /\ event.expenses[1] # event.expenses[2]
  /\ event.expenses[1].paidBy[1].participantId = "a"
  /\ event.expenses[2].paidBy[1].participantId = "a"
  /\ event.expenses[1].amount # event.expenses[2].amount
  /\ \E i \in 1..Len(summary.balances) :
       /\ summary.balances[i].participantId = "a"
       /\ summary.balances[i].paid = 70

\* The sum of the amounts that the entries of a list hold for one id.
AmountFor(entries, participantId) ==
  SumSeq([k \in 1..Len(entries) |->
           IF entries[k].participantId = participantId
           THEN entries[k].amount ELSE 0])

PaidBy(participantId) ==
  SumSeq([e \in 1..Len(event.expenses) |->
           AmountFor(event.expenses[e].paidBy, participantId)])

OwedBy(participantId) ==
  SumSeq([e \in 1..Len(event.expenses) |->
           AmountFor(calculateExpenseShares(event.expenses[e]), participantId)])

\* C8: one balance record per declared participant; paid is the sum of the
\* participant's payer allocations, owes the sum of the participant's
\* distributed shares, over all expenses, and net = paid - owes.
C8_BalancePerParticipant ==
  EventDone =>
    /\ Len(summary.balances) = Len(event.participants)
    /\ \A i \in 1..Len(event.participants) :
         LET id == event.participants[i].id
         IN  /\ summary.balances[i].participantId = id
             /\ summary.balances[i].paid = PaidBy(id)
             /\ summary.balances[i].owes = OwedBy(id)
             /\ summary.balances[i].net = PaidBy(id) - OwedBy(id)

\* C8 witness: a participant who both paid and owes over two expenses has a
\* non-zero net.
C8_Witness ==
  /\ EventDone
  /\ Len(event.expenses) = 2
  /\ \E i \in 1..Len(summary.balances) :
       /\ summary.balances[i].paid > 0
       /\ summary.balances[i].owes > 0
       /\ summary.balances[i].net < 0

\* The ids that expenses mention in a payer list or a split.
MentionedIds(expenses) ==
  UNION {{expenses[e].paidBy[k].participantId : k \in 1..Len(expenses[e].paidBy)}
         \cup {calculateExpenseShares(expenses[e])[k].participantId :
               k \in 1..Len(calculateExpenseShares(expenses[e]))} :
         e \in 1..Len(expenses)}

StrayIds == MentionedIds(event.expenses) \ DeclaredIds

SeqOfSet(S) == CHOOSE s \in [1..Cardinality(S) -> S] : {s[i] : i \in 1..Len(s)} = S

\* C9: ids outside the participant set in a payer list or a split yield no
\* balance record, and every declared participant's record is what it is when
\* the stray ids are participants too: their allocations and shares are
\* computed but added to nobody.
C9_StrayIdsDropped ==
  (EventDone /\ StrayIds # {}) =>
    LET strays == SeqOfSet(StrayIds)
        withStrays == calculateEventBalances(
                        [event EXCEPT !.participants =
                           @ \o [i \in 1..Len(strays) |-> [id |-> strays[i]]]])
    IN  /\ Len(summary.balances) = Len(event.participants)
        /\ \A i \in 1..Len(summary.balances) :
             /\ summary.balances[i].participantId \in DeclaredIds
             /\ summary.balances[i] = withStrays.balances[i]

\* C9 witness: the undeclared id c pays one expense and has a share of it,
\* and a declared participant owes part of the same expense.
C9_Witness ==
  /\ EventDone
  /\ "c" \in StrayIds
  /\ Len(event.expenses) >= 1
  /\ event.expenses[1].paidBy[1].participantId = "c"
  /\ AmountFor(calculateExpenseShares(event.expenses[1]), "c") > 0
  /\ \E i \in 1..Len(summary.balances) : summary.balances[i].owes > 0

(***************************************************************************)
(* Fallbacks and output order of the distributor (SpecShares).             *)
(***************************************************************************)
NoPositiveWeightDone ==
  /\ sharesPc = "done"
  /\ expense.split.type = "shares"
  /\ \A i \in 1..Len(expense.split.shares) : expense.split.shares[i].weight <= 0

\* C13: a shares split in which no weight is positive is distributed as the
\* even split of the total over all listed participants, in listed order:
\* with n participants listed, base = floor(total / n) and the first
\* (total - base * n) of them get base + 1 cents; nothing is raised.
C13_SharesFallbackEven ==
  NoPositiveWeightDone =>
    LET listed == expense.split.shares
        n == Len(listed)
        base == TotalCents \div (IF n = 0 THEN 1 ELSE n)
        remainder == TotalCents - base * (IF n = 0 THEN 1 ELSE n)
    IN  /\ Len(shareCents) = n
        /\ \A i \in 1..n :
             /\ shareCents[i].participantId = listed[i].participantId
             /\ shareCents[i].cents = (IF i <= remainder THEN base + 1 ELSE base)
        /\ n >= 1 => SumCents(shareCents) = TotalCents

\* C13 witness: three participants listed with weights 0, -1 and 0 share 5
\* cents as 2, 2 and 1.
C13_Witness ==
  /\ NoPositiveWeightDone
  /\ Len(expense.split.shares) = 3
  /\ expense.split.shares[1].participantId = "b"
  /\ expense.split.shares[2].weight = -1
  /\ TotalCents = 5
  /\ shareCents[1] = [participantId |-> "b", cents |-> 2]
  /\ shareCents[3].cents = 1

ShareAmount(share) == share.amount

EmptyEvenDone == EvenDone /\ Len(expense.split.participantIds) = 0

\* C20: calculateExpenseShares on an even split that lists no participant
\* returns the empty list (the count is clamped to 1, so nothing is divided
\* by zero), and its shares therefore sum to 0 whatever the expense amount.
C20_EmptyEvenSplit ==
  EmptyEvenDone =>
    /\ shareCents = <<>>
    /\ shares = <<>>
    /\ SumSeq(MapSeq(shares, ShareAmount)) = 0

\* C20 witness: an expense of 5 cents split evenly over nobody came back
\* with no share, so the 5 cents are owed by no one.
C20_Witness ==
  /\ EmptyEvenDone
  /\ TotalCents = 5
  /\ shares = <<>>
  /\ SumSeq(MapSeq(shares, ShareAmount)) # expense.amount

\* C19: calculateExpenseShares on a shares split with at least one positive
\* weight returns exactly one entry per positive-weight participant (those
\* with weight <= 0 are left out), listed in the order of the input shares.
C19_SharesEntriesInInputOrder ==
  SharesDone =>
    LET positiveShares == SelectSeq(expense.split.shares, IsPositiveShare)
    IN  /\ Len(shares) = Len(positiveShares)
        /\ \A i \in 1..Len(positiveShares) :
             shares[i].participantId = positiveShares[i].participantId

\* The part of C19 about which participants get an entry, order aside.
C19_OneEntryPerPositiveWeight ==
  SharesDone =>
    LET positiveShares == SelectSeq(expense.split.shares, IsPositiveShare)
    IN  /\ Len(shares) = Len(positiveShares)
        /\ \A i \in 1..Len(positiveShares) :
             Cardinality({k \in 1..Len(shares) :
                            shares[k].participantId
                              = positiveShares[i].participantId}) = 1

(***************************************************************************)
(* Properties of the cent conversion (SpecRound).                          *)
(***************************************************************************)
RoundDone == roundPc = "done"

\* An amount in mills with at most two decimal places is a whole number of
\* cents.
HasTwoDecimals(value) == value % 10 = 0

\* C16: for every decimal x with at most two decimal places,
\* fromCents(toCents(x)) = x, whichever way the double product x * 100 is
\* rounded.
C16_CentsRoundTrip ==
  (RoundDone /\ HasTwoDecimals(decimal)) =>
    /\ 10 * cents = decimal
    /\ roundTrip = decimal

\* C16 witness: -0.03 has gone through toCents and fromCents and come back
\* as -0.03.
C16_Witness ==
  /\ RoundDone
  /\ decimal = -30
  /\ cents = -3
  /\ roundTrip = -30

\* A decimal with a third decimal place does not survive the round trip:
\* 0.034 comes back as 0.03.
RoundTripLosesThirdDecimal ==
  /\ RoundDone
  /\ decimal = 34
  /\ roundTrip = 30

(***************************************************************************)
(* Who is paired with whom, and termination (SpecSettle).                  *)
(***************************************************************************)
SettleEntered == settlePc \in {"loop", "done"}

\* The net with which a participant came in.
InputNet(participantId) ==
  LET i == CHOOSE i \in 1..Len(balances) : balances[i].participantId = participantId
  IN  balances[i].net

CreditorIds == {balances[i].participantId : i \in {j \in 1..Len(balances) :
                                                     balances[j].net > tolerance}}

DebtorIds == {balances[i].participantId : i \in {j \in 1..Len(balances) :
                                                   balances[j].net < -tolerance}}

\* C17: the creditor list holds exactly the participants with net >
\* tolerance, largest net first, and the debtor list exactly those with net
\* < -tolerance, most negative first; every settlement goes from a debtor to
\* a creditor, so a participant with |net| <= tolerance is in no settlement;
\* and the first settlement pairs the largest creditor with the largest
\* debtor.
C17_OnlyCreditorsAndDebtorsPaired ==
  SettleEntered =>
    /\ {creditors[k].participantId : k \in 1..Len(creditors)} = CreditorIds
    /\ Len(creditors) = Cardinality(CreditorIds)
    /\ \A k \in 1..(Len(creditors) - 1) :
         InputNet(creditors[k].participantId)
           >= InputNet(creditors[k + 1].participantId)
    /\ {debtors[k].participantId : k \in 1..Len(debtors)} = DebtorIds
    /\ Len(debtors) = Cardinality(DebtorIds)
    /\ \A k \in 1..(Len(debtors) - 1) :
         InputNet(debtors[k].participantId)
           <= InputNet(debtors[k + 1].participantId)
    /\ \A k \in 1..Len(settlements) :
         /\ settlements[k].from \in DebtorIds
         /\ settlements[k].to \in CreditorIds
    /\ \A i \in 1..Len(balances) :
         Abs(balances[i].net) <= tolerance =>
           \A k \in 1..Len(settlements) :
             /\ settlements[k].from # balances[i].participantId
             /\ settlements[k].to # balances[i].participantId
    /\ Len(settlements) >= 1 =>
         /\ \A i \in 1..Len(balances) :
              balances[i].net <= InputNet(settlements[1].to)
         /\ \A i \in 1..Len(balances) :
              balances[i].net >= InputNet(settlements[1].from)

\* C17 witness: nets 0.01, 0.02, 0.03 and -0.03 with tolerance 0.01; the
\* first participant is within tolerance and in no settlement, and the first
\* settlement goes from the only debtor to the largest creditor, who is
\* listed after a smaller one.
C17_Witness ==
  /\ SettleDone
  /\ tolerance = DefaultTolerance
  /\ balances[1].net = 10
  /\ balances[2].net = 20
  /\ balances[3].net = 30
  /\ balances[4].net = -30
  /\ Len(settlements) = 1
  /\ settlements[1].from = "d"
  /\ settlements[1].to = "c"

\* One iteration of the loop moved at least one of the two pointers forward
\* and none backward.
PointerAdvanced ==
  /\ creditorIndex' >= creditorIndex
  /\ debtorIndex' >= debtorIndex
  /\ creditorIndex' + debtorIndex' > creditorIndex + debtorIndex

\* C18: for any finite list of balances and any tolerance >= 0 the
\* two-pointer loop terminates: every iteration advances the creditor
\* pointer, the debtor pointer or both, and the function returns as soon as
\* either list is exhausted.
C18_LoopTerminates ==
  /\ [][SettleStep => PointerAdvanced]_vars
  /\ [](settlePc = "loop" /\ (creditorIndex >= Len(creditors)
                               \/ debtorIndex >= Len(debtors))
          => ~ENABLED SettleStep)
  /\ <>(settlePc = "done")

\* C18 witness: the loop ended after two iterations because the only
\* creditor was settled, with a debtor still waiting.
C18_Witness ==
  /\ SettleDone
  /\ Len(creditors) = 1
  /\ Len(debtors) = 3
  /\ Len(settlements) = 2
  /\ creditorIndex = 1
  /\ debtorIndex < Len(debtors)

(***************************************************************************)
(* Properties of the receipt allocator (SpecReceipt).                      *)
(***************************************************************************)
ReceiptDone == receiptPc = "done"

IsUnassigned(item) == Len(item.assignedParticipantIds) = 0

ItemId(item) == item.id

\* The ids of the unassigned items among the first n, in item order.
UnassignedIdsUpTo(n) ==
  MapSeq(SelectSeq(SubSeq(items, 1, n), IsUnassigned), ItemId)

\* The cents of all of the first n items, assigned or not.
TotalCentsUpTo(n) == SumSeq([i \in 1..n |-> toCents(items[i].amount)])

\* C11: an item with no assigned participant has its id appended to
\* unassignedItemIds, adds its amount to the total and adds nothing to any
\* perParticipant entry; unassignedItemIds holds the ids of exactly those
\* items, in item order, so an item with an assignee never appears in it.
C11_UnassignedItems ==
  /\ [][(ReceiptItem /\ IsUnassigned(items[itemIndex + 1])) =>
          /\ allocation'.unassignedItemIds
               = Append(allocation.unassignedItemIds, items[itemIndex + 1].id)
          /\ allocation'.totalCents
               = allocation.totalCents + toCents(items[itemIndex + 1].amount)
          /\ allocation'.perParticipantCents = allocation.perParticipantCents]_vars
  /\ [](receiptPc \in {"items", "done"} =>
          /\ allocation.unassignedItemIds = UnassignedIdsUpTo(itemIndex)
          /\ allocation.totalCents = TotalCentsUpTo(itemIndex))
  /\ [](ReceiptDone =>
          /\ receipt.unassignedItemIds = UnassignedIdsUpTo(Len(items))
          /\ receipt.total = fromCents(TotalCentsUpTo(Len(items))))

\* C11 witness: of the items x (0.03, nobody) and y (0.048, to a) only x is
\* reported unassigned, the total is 0.08 and a alone is charged, 0.05.
C11_Witness ==
  /\ ReceiptDone
  /\ items = <<ItemWith("x", 30, <<>>), ItemWith("y", 48, <<"a">>)>>
  /\ receipt.unassignedItemIds = <<"x">>
  /\ receipt.total = 80
  /\ receipt.perParticipant = <<[participantId |-> "a", amount |-> 50]>>

\* The cents distributeEven gives participantId out of the first n items,
\* unassigned items aside.
EvenCentsUpTo(n, participantId) ==
  SumSeq([i \in 1..n |->
           IF IsUnassigned(items[i]) THEN 0
           ELSE CentsOf(distributeEven(toCents(items[i].amount),
                                       items[i].assignedParticipantIds),
                        participantId)])

AssignedIdsUpTo(n) ==
  UNION {{items[i].assignedParticipantIds[k] :
            k \in 1..Len(items[i].assignedParticipantIds)} : i \in 1..n}

\* C12: the cents credited to each assignee of an assigned item are those
\* distributeEven(toCents(item.amount), item.assignedParticipantIds) gives,
\* and perParticipant is the sum of these per-item shares: one entry for
\* each participant assigned to some item, none for anybody else.
C12_ReceiptUsesEvenSplit ==
  /\ receiptPc \in {"items", "done"} =>
       /\ {allocation.perParticipantCents[k].participantId :
             k \in 1..Len(allocation.perParticipantCents)}
            = AssignedIdsUpTo(itemIndex)
       /\ Len(allocation.perParticipantCents) = Cardinality(AssignedIdsUpTo(itemIndex))
       /\ \A k \in 1..Len(allocation.perParticipantCents) :
            allocation.perParticipantCents[k].cents
              = EvenCentsUpTo(itemIndex, allocation.perParticipantCents[k].participantId)
  /\ ReceiptDone =>
       /\ Len(receipt.perParticipant) = Cardinality(AssignedIdsUpTo(Len(items)))
       /\ \A k \in 1..Len(receipt.perParticipant) :
            receipt.perParticipant[k].amount
              = fromCents(EvenCentsUpTo(Len(items),
                                        receipt.perParticipant[k].participantId))

\* C12 witness: 12.00 assigned to a and b and 9.00 assigned to b give a =
\* 6.00, b = 15.00 and a total of 21.00.
C12_Witness ==
  /\ ReceiptDone
  /\ items = <<ItemWith("x", 12000, <<"a", "b">>), ItemWith("y", 9000, <<"b">>)>>
  /\ receipt.perParticipant = <<[participantId |-> "a", amount |-> 6000],
                                [participantId |-> "b", amount |-> 15000]>>
  /\ receipt.total = 21000
  /\ receipt.unassignedItemIds = <<>>

\* An odd cent of an item goes to the participant listed first: 0.03
\* assigned to b and a charges b 0.02 and a 0.01.
ReceiptOddCentToFirst ==
  /\ ReceiptDone
  /\ items = <<ItemWith("x", 30, <<"b", "a">>)>>
  /\ receipt.perParticipant = <<[participantId |-> "b", amount |-> 20],
                                [participantId |-> "a", amount |-> 10]>>

(***************************************************************************)
(* The engine leaves its inputs alone (SpecEngine).                        *)
(***************************************************************************)
\* C14: no step of suggestSettlements changes the balances it was given
\* (their paid, owes and net stay as they came in; the running remainders
\* live on the copies), and no step of calculateExpenseShares,
\* calculateEventBalances or calculateReceiptAllocations changes the expense,
\* the event or the items it was given.
C14_InputsNotMutated ==
  [][/\ balances' = balances
     /\ tolerance' = tolerance
     /\ expense' = expense
     /\ event' = event
     /\ items' = items]_vars

\* C14 witness: suggestSettlements has returned after settling its largest
\* creditor, whose copy is down to net 0 while the input balance still shows
\* the 0.03 it came in with, equal to paid - owes.
C14_Witness ==
  /\ SettleDone
  /\ Len(settlements) >= 2
  /\ creditors[1].net = 0
  /\ creditorOrigins[1] = 0
  /\ InputNet(creditors[1].participantId) = 30
  /\ \A i \in 1..Len(balances) : balances[i].net = balances[i].paid - balances[i].owes

(***************************************************************************)
(* Properties of the store (SpecStore).                                    *)
(***************************************************************************)
StoredExpenses ==
  UNION {{store.events[k].expenses[i] : i \in 1..Len(store.events[k].expenses)} :
           k \in 1..Len(store.events)}

PayerSum(e) == SumSeq(MapSeq(e.paidBy, PayerAmount))

\* C15: in every state the store reaches through upsertExpense,
\* removeParticipant, deleteParticipantCompletely and updateParticipantId, the
\* payer allocations of every stored expense sum to the expense's amount.
C15_PayerSumInvariant ==
  \A e \in StoredExpenses : PayerSum(e) = e.amount

\* What the store does maintain when an expense is created or updated: the
\* payers are within one cent of the amount.
PayerSumWithinOneCentAfterUpsert ==
  [][UpsertExpense =>
       \A e \in StoredExpenses' \ StoredExpenses :
         Abs(PayerSum(e) - e.amount) <= 10]_vars

\* removeParticipant has dropped the allocation of a payer: the expense still
\* amounts to 0.03 and its remaining payer accounts for 0.02.
PayerDroppedByRemoval ==
  \E e \in StoredExpenses :
    /\ e.amount = 30
    /\ e.paidBy = <<[participantId |-> "a", amount |-> 20]>>
    /\ ~HasParticipant(StoreEvent("e1"), "b")

(***************************************************************************)
(* No overshoot and no repeated pair (SpecSettle).                         *)
(***************************************************************************)
\* What the settlements so far make a participant pay, and receive.
PaidOut(participantId) ==
  SumSeq([k \in 1..Len(settlements) |->
           IF settlements[k].from = participantId
           THEN settlements[k].amount ELSE 0])

Received(participantId) ==
  SumSeq([k \in 1..Len(settlements) |->
           IF settlements[k].to = participantId
           THEN settlements[k].amount ELSE 0])

\* C24: whatever the balances (of whole cents, summing to zero or not) and
\* the tolerance >= 0, the settlements never flip the sign of a net: a
\* creditor receives at most its net and its adjusted net stays >= 0, a
\* debtor pays at most |net| and its adjusted net stays <= 0.
C24_SettlementsNeverOvershoot ==
  SettleEntered =>
    \A i \in 1..Len(balances) :
      LET balance == balances[i]
      IN  /\ balance.net > 0 =>
             /\ Received(balance.participantId) <= balance.net
             /\ PaidOut(balance.participantId) = 0
             /\ AdjustedNet(balance) >= 0
          /\ balance.net < 0 =>
             /\ PaidOut(balance.participantId) <= -balance.net
             /\ Received(balance.participantId) = 0
             /\ AdjustedNet(balance) <= 0
          /\ balance.net = 0 => AdjustedNet(balance) = 0

\* C24 witness: balances that do not sum to zero, settled with two
\* settlements, after which a creditor is still owed part of its net.
C24_Witness ==
  /\ SettleDone
  /\ SumNets > 0
  /\ Len(settlements) = 2
  /\ \E i \in 1..Len(balances) :
       /\ balances[i].net = 30
       /\ Received(balances[i].participantId) = 20
       /\ AdjustedNet(balances[i]) = 10

\* C25: with distinct participant ids no settlement has from = to and no
\* (from, to) pair occurs twice in the returned list.
C25_SettlementPairsUnique ==
  SettleEntered =>
    /\ \A k \in 1..Len(settlements) : settlements[k].from # settlements[k].to
    /\ \A j, k \in 1..Len(settlements) :
         (j # k) =>
           <<settlements[j].from, settlements[j].to>>
             # <<settlements[k].from, settlements[k].to>>

\* C25 witness: three settlements in which one debtor pays two different
\* creditors and one creditor is paid by two different debtors.
C25_Witness ==
  /\ SettleDone
  /\ Len(settlements) = 3
  /\ settlements[1].from = settlements[2].from
  /\ settlements[1].to # settlements[2].to
  /\ settlements[2].to = settlements[3].to
  /\ settlements[2].from # settlements[3].from

(***************************************************************************)
(* Quota and monotonicity of the shares split (SpecShares).                *)
(***************************************************************************)
\* C26: in a shares split every positive-weight participant gets the floor
\* of its exact quota weight / totalWeight * totalCents or one cent more, a
\* participant with a larger weight never gets fewer cents than one with a
\* smaller weight, and participants of equal weight differ by at most a cent.
C26_SharesMonotoneWithinQuota ==
  SharesDone =>
    LET positiveShares == SelectSeq(expense.split.shares, IsPositiveShare)
        n == Len(positiveShares)
        totalWeight == SumSeq(MapSeq(positiveShares, ShareWeight))
        got(i) == CentsOf(shareCents, positiveShares[i].participantId)
        quotaFloor(i) == (positiveShares[i].weight * TotalCents) \div totalWeight
    IN  /\ \A i \in 1..n : got(i) \in {quotaFloor(i), quotaFloor(i) + 1}
        /\ \A i, j \in 1..n :
             /\ positiveShares[i].weight > positiveShares[j].weight
                  => got(i) >= got(j)
             /\ positiveShares[i].weight = positiveShares[j].weight
                  => Abs(got(i) - got(j)) <= 1

\* C26 witness: weights 2, 2 and 1 share 4 cents as 2, 1 and 1: the two
\* equal weights differ by a cent and the smallest weight gets no more than
\* either.
C26_Witness ==
  /\ SharesDone
  /\ Len(expense.split.shares) = 3
  /\ expense.split.shares[1].weight = 2
  /\ expense.split.shares[2].weight = 2
  /\ expense.split.shares[3].weight = 1
  /\ TotalCents = 4
  /\ CentsOf(shareCents, expense.split.shares[1].participantId) = 2
  /\ CentsOf(shareCents, expense.split.shares[2].participantId) = 1
  /\ CentsOf(shareCents, expense.split.shares[3].participantId) = 1

(***************************************************************************)
(* Conservation of the receipt's cents (SpecReceipt).                      *)
(***************************************************************************)
\* The cents of the perParticipant values of the returned summary.
PerParticipantCentsReturned ==
  SumSeq([k \in 1..Len(receipt.perParticipant) |->
           toCents(receipt.perParticipant[k].amount)])

\* The cents of the items the returned summary lists as unassigned.
UnassignedCentsReturned ==
  SumSeq([i \in 1..Len(items) |->
           IF \E k \in 1..Len(receipt.unassignedItemIds) :
                receipt.unassignedItemIds[k] = items[i].id
           THEN toCents(items[i].amount) ELSE 0])

SplitIds(split) ==
  IF split.type = "even"
  THEN {split.participantIds[k] : k \in 1..Len(split.participantIds)}
  ELSE IF split.type = "shares"
  THEN {split.shares[k].participantId : k \in 1..Len(split.shares)}
  ELSE {split.allocations[k].participantId : k \in 1..Len(split.allocations)}

PayerIds(e) == {e.paidBy[k].participantId : k \in 1..Len(e.paidBy)}

\* The payers of every expense sum to its amount, every payer and split id
\* is declared and no split is empty.
WellFormedEvent ==
  \A i \in 1..Len(event.expenses) :
    LET e == event.expenses[i]
    IN  /\ SumSeq([k \in 1..Len(e.paidBy) |-> e.paidBy[k].amount]) = e.amount
        /\ PayerIds(e) \subseteq DeclaredIds
        /\ SplitIds(e.split) \subseteq DeclaredIds
        /\ SplitIds(e.split) # {}

ReturnedNetCents ==
  SumSeq([k \in 1..Len(summary.balances) |-> toCents(summary.balances[k].net)])

\* C23: for an event in which every expense's payers sum to its amount,
\* every payer and split id is a declared participant and every split is
\* non-empty, the nets calculateEventBalances returns sum to exactly zero
\* cents.
C23_NetsSumToZero ==
  (EventDone /\ WellFormedEvent) => ReturnedNetCents = 0

\* C23 witness: two expenses, one of them split by shares, among three
\* declared participants; somebody is owed money and the nets cancel.
C23_Witness ==
  /\ EventDone
  /\ WellFormedEvent
  /\ Len(event.expenses) = 2
  /\ event.expenses[1].split.type = "shares"
  /\ event.expenses[2].split.type = "even"
  /\ \E k \in 1..Len(summary.balances) : summary.balances[k].net >= 30
  /\ ReturnedNetCents = 0

(***************************************************************************)
(* Stored splits (SpecStore).                                              *)
(***************************************************************************)
\* The number of entries a stored split lists.
SplitSize(split) ==
  IF split.type = "even" THEN Len(split.participantIds)
  ELSE IF split.type = "shares" THEN Len(split.shares)
  ELSE Len(split.allocations)

\* C21: in every store state reachable through upsertExpense,
\* removeParticipant and deleteParticipantCompletely, no stored expense has
\* an even split with an empty participant list, nor a shares or exact split
\* with an empty list.
C21_NoEmptyStoredSplit ==
  \A e \in StoredExpenses : SplitSize(e.split) > 0

\* What upsertExpense alone maintains for the drafts of the expense form,
\* whose splits list somebody: a stored split is empty only after a removal.
EmptySplitOnlyAfterRemoval ==
  [][UpsertExpense =>
       \A e \in StoredExpenses' :
         SplitSize(e.split) = 0 => e \in StoredExpenses]_vars

(***************************************************************************)
(* Participant ids (SpecParticipants).                                     *)
(***************************************************************************)
EventParticipantIds(ev) == MapSeq(ev.participants, LAMBDA participant : participant.id)

PairwiseDistinct(ids) ==
  \A i, j \in 1..Len(ids) : ids[i] = ids[j] => i = j

\* C22: starting from events whose participant ids are pairwise distinct,
\* after any sequence of upsertParticipant, removeParticipant,
\* updateParticipantId (which rejects a new id another participant has) and
\* deleteParticipantCompletely, the participant ids of every event are
\* still pairwise distinct.
C22_ParticipantIdsDistinct ==
  \A k \in 1..Len(store.events) :
    PairwiseDistinct(EventParticipantIds(store.events[k]))

\* C22 witness: c has been upserted into the second event, where the
\* upsert of b replaced the b already there, and a has been renamed to d in
\* both events.
C22_Witness ==
  /\ storeSteps >= 2
  /\ EventParticipantIds(StoreEvent("e1")) = <<"d", "b", "c">>
  /\ EventParticipantIds(StoreEvent("e2")) = <<"d", "b", "c">>
  /\ C22_ParticipantIdsDistinct

(***************************************************************************)
(* Settlement tracking (SpecTracking).                                     *)
(***************************************************************************)
ExpensesOf(state, eventId) ==
  LET k == CHOOSE k \in 1..Len(state.events) : state.events[k].id = eventId
  IN  state.events[k].expenses

TrackingOf(state, eventId) ==
  LET k == CHOOSE k \in 1..Len(state.events) : state.events[k].id = eventId
  IN  state.events[k].settlementTracking

\* The events whose expense list, or an expense of which, the step changes.
ChangedEvents ==
  {eventId \in StoreEventIds :
     ExpensesOf(store', eventId) # ExpensesOf(store, eventId)}

\* C28: after an upsert-expense, remove-expense, remove-participant or
\* delete-participant-completely that changes the expenses of an event, the
\* settlementTracking of that event is empty and that of every other event
\* is unchanged.
C28_TrackingClearedOnExpenseChange ==
  [][(UpsertTrackedExpense \/ RemoveExpense \/ RemoveParticipant
        \/ DeleteParticipantCompletely)
     => \A eventId \in StoreEventIds :
          IF eventId \in ChangedEvents
          THEN TrackingOf(store', eventId) = <<>>
          ELSE ChangedEvents # {} =>
                 TrackingOf(store', eventId) = TrackingOf(store, eventId)]_vars

\* What the reducer does: the two expense actions clear the tracking of the
\* event they change and of no other, and the two participant actions keep
\* every tracking record.
TrackingClearedByExpenseActionsOnly ==
  [][/\ (UpsertTrackedExpense \/ RemoveExpense)
          => \A eventId \in StoreEventIds :
               IF eventId \in ChangedEvents
               THEN TrackingOf(store', eventId) = <<>>
               ELSE ChangedEvents # {} =>
                      TrackingOf(store', eventId) = TrackingOf(store, eventId)
     /\ (RemoveParticipant \/ DeleteParticipantCompletely)
          => \A eventId \in StoreEventIds :
               TrackingOf(store', eventId) = TrackingOf(store, eventId)]_vars

\* A payment is on record in an event whose expense has just lost a payer.
TrackingKeptAfterRemoval ==
  /\ storeSteps = 2
  /\ TrackingOf(store, "e1") # <<>>
  /\ Len(ExpensesOf(store, "e1")) = 1
  /\ Len(ExpensesOf(store, "e1")[1].paidBy) = 1


\* The step is an add-settlement-payment or a remove-settlement-payment on
\* the pair (fromId, toId) of the event, with this settlementAmount.
PaymentStep(eventId, fromId, toId, settlementAmount) ==
  /\ storeSteps' = storeSteps + 1
  /\ \/ \E amount \in PaymentAmounts :
          store' = ReduceAddSettlementPayment(store, eventId, fromId, toId,
                                              amount, settlementAmount,
                                              NewPaymentId)
     \/ \E paymentId \in StorePaymentIds :
          store' = ReduceRemoveSettlementPayment(store, eventId, fromId, toId,
                                                 paymentId, settlementAmount)

RecordsOf(state, eventId, fromId, toId) ==
  LET tracking == TrackingOf(state, eventId)
  IN  SelectSeq(tracking,
                LAMBDA t : t.fromParticipantId = fromId /\ t.toParticipantId = toId)

TotalPaid(record) == SumSeq(MapSeq(record.payments, PaymentAmount))

\* C29: after every add-settlement-payment or remove-settlement-payment on
\* a (from, to) pair, exactly one tracking record exists for the pair and
\* its markedComplete is true if and only if the sum of its payments is at
\* least settlementAmount - 0.01, whatever was marked by hand before.
C29_CompletionFlagFollowsPayments ==
  [][\A eventId \in StoreEventIds, pair \in TrackingPairs,
        settlementAmount \in SettlementAmounts :
       PaymentStep(eventId, pair[1], pair[2], settlementAmount)
         => LET records == RecordsOf(store', eventId, pair[1], pair[2])
            IN  /\ Len(records) = 1
                /\ records[1].markedComplete
                     <=> (TotalPaid(records[1]) >= settlementAmount - 10)]_vars

\* What the reducer guarantees: one record per pair, marked complete when
\* the payments reach the settlement amount and not marked when they are
\* more than a cent short, whatever was marked by hand before.
CompletionFlagOffTheBoundary ==
  [][\A eventId \in StoreEventIds, pair \in TrackingPairs,
        settlementAmount \in SettlementAmounts :
       PaymentStep(eventId, pair[1], pair[2], settlementAmount)
         => LET records == RecordsOf(store', eventId, pair[1], pair[2])
            IN  /\ Len(records) = 1
                /\ TotalPaid(records[1]) >= settlementAmount
                     => records[1].markedComplete
                /\ TotalPaid(records[1]) < settlementAmount - 10
                     => ~records[1].markedComplete]_vars

\* No event has two tracking records for one (from, to) pair.
TrackingPairsUnique ==
  \A eventId \in StoreEventIds :
    LET tracking == TrackingOf(store, eventId)
    IN  \A i, j \in 1..Len(tracking) :
          (/\ tracking[i].fromParticipantId = tracking[j].fromParticipantId
           /\ tracking[i].toParticipantId = tracking[j].toParticipantId)
            => i = j

\* A settlement marked complete by hand is open again after a payment that
\* leaves it more than a cent short.
ManualMarkOverwritten ==
  /\ storeSteps = 2
  /\ \E eventId \in StoreEventIds :
       LET tracking == TrackingOf(store, eventId)
       IN  /\ Len(tracking) = 1
           /\ ~tracking[1].markedComplete
           /\ Len(tracking[1].payments) = 1

(***************************************************************************)
(* Removal of a participant from an event (SpecStore).                     *)
(***************************************************************************)
EventOf(state, eventId) ==
  LET k == CHOOSE k \in 1..Len(state.events) : state.events[k].id = eventId
  IN  state.events[k]

\* The step is a remove-participant(eventId, participantId).
RemoveParticipantStep(eventId, participantId) ==
  /\ storeSteps' = storeSteps + 1
  /\ store' = ReduceRemoveParticipant(store, eventId, participantId)

\* The ids an expense mentions, as a payer or in its split.
ExpenseMentions(e) == PayerIds(e) \cup SplitIds(e.split)

UnassignedIds(state) ==
  {state.unassignedParticipants[i].id : i \in 1..Len(state.unassignedParticipants)}

\* C30: after remove-participant(eventId, id) the id is absent from the
\* participants of the event and from the paidBy list and the split of
\* each of its expenses, every other event is unchanged, and the removed
\* participant is appended to unassignedParticipants exactly when it was
\* found in the event, is a member of no other event and was not already
\* unassigned.
C30_RemovedParticipantLeavesNoReference ==
  [][\A eventId \in StoreEventIds, participantId \in ParticipantIds :
       RemoveParticipantStep(eventId, participantId)
         => LET before == EventOf(store, eventId)
                after == EventOf(store', eventId)
                found == HasParticipant(before, participantId)
                elsewhere == \E other \in StoreEventIds \ {eventId} :
                               HasParticipant(EventOf(store, other), participantId)
                unassigned == participantId \in UnassignedIds(store)
            IN  /\ ~HasParticipant(after, participantId)
                /\ \A i \in 1..Len(after.expenses) :
                     participantId \notin ExpenseMentions(after.expenses[i])
                /\ \A other \in StoreEventIds \ {eventId} :
                     EventOf(store', other) = EventOf(store, other)
                /\ store'.unassignedParticipants =
                     IF found /\ ~elsewhere /\ ~unassigned
                     THEN Append(store.unassignedParticipants,
                                 [id |-> participantId])
                     ELSE store.unassignedParticipants]_vars

\* C30 witness: a, a member of both events and a payer and split member of
\* an expense of the first, has been removed from the first event: the
\* expense is left with b alone and a, still in the second event, is not
\* unassigned.
C30_Witness ==
  /\ storeSteps = 2
  /\ EventParticipantIds(StoreEvent("e1")) = <<"b", "c">>
  /\ EventParticipantIds(StoreEvent("e2")) = <<"a", "b">>
  /\ UnassignedIds(store) = {}
  /\ Len(StoreEvent("e1").expenses) = 1
  /\ ExpenseMentions(StoreEvent("e1").expenses[1]) = {"b"}
  /\ StoreEvent("e1").expenses[1].split.type = "exact"
====
